---- MODULE Spec2Model ----
(***************************************************************************)
(* Model of the resume-search pipeline of new_hh_resume_app:               *)
(* the GET handler of the search-resume route, fetchResumes (company loop, *)
(* pagination loop, enrichment loop), fetchResumeDetails (retry/backoff),  *)
(* cleanCompanyName and isRecentOrCurrentExperience.                       *)
(*                                                                         *)
(* Strings are sequences of characters.  A character is a record           *)
(* [s |-> script, c |-> letter, u |-> upper case?]; the scripts are "cyr"  *)
(* (Cyrillic letter), "lat" (ASCII letter), "dig" (ASCII digit), "sp"      *)
(* (white space), "q" (one of the quote characters " ' << >>) and "p"      *)
(* (other punctuation, such as - and ~).                                   *)
(***************************************************************************)
EXTENDS Integers, Sequences, FiniteSets, TLC

(***************************************************************************)
(* Characters and strings                                                  *)
(***************************************************************************)
Ch(s, c, u) == [s |-> s, c |-> c, u |-> u]

\* A lower-case Cyrillic word from the sequence of its letters' names.
Cyr(w) == [k \in 1..Len(w) |-> Ch("cyr", w[k], FALSE)]

\* A lower-case ASCII word.
Lat(w) == [k \in 1..Len(w) |-> Ch("lat", w[k], FALSE)]

\* The same string with its first letter in upper case.
Cap(w) == [k \in 1..Len(w) |-> IF k = 1 THEN [w[k] EXCEPT !.u = TRUE] ELSE w[k]]

SPACE == Ch("sp", " ", FALSE)
DQUOTE == Ch("q", "dq", FALSE)
LAQUO == Ch("q", "laquo", FALSE)
RAQUO == Ch("q", "raquo", FALSE)
HYPHEN == Ch("p", "-", FALSE)
TILDE == Ch("p", "~", FALSE)
DIGIT1 == Ch("dig", "1", FALSE)

\* String.prototype.toLowerCase, character by character.
toLowerCase(str) == [k \in 1..Len(str) |-> [str[k] EXCEPT !.u = FALSE]]

\* The class \w of a JavaScript regular expression without the u flag:
\* ASCII letters, digits and underscore only.
IsWordChar(ch) == ch.s \in {"lat", "dig"}

\* The class \s.
IsSpace(ch) == ch.s = "sp"

\* The class ["'<<>>] of cleanCompanyName.
IsQuote(ch) == ch.s = "q"

\* Mutant of RemoveQuotes: the replace without the g flag removes the first
\* quote only.
RECURSIVE RemoveFirstQuote(_)
RemoveFirstQuote(str) ==
    IF str = <<>> THEN <<>>
    ELSE IF IsQuote(Head(str)) THEN Tail(str)
         ELSE <<Head(str)>> \o RemoveFirstQuote(Tail(str))

\* str.replace(/["'<<>>]/g, '')
RemoveQuotes(str) == SelectSeq(str, LAMBDA ch : ~IsQuote(ch))

\* str.replace(/\s+/g, ' ')
RECURSIVE CollapseSpaces(_)
CollapseSpaces(str) ==
    IF str = <<>> THEN <<>>
    ELSE IF IsSpace(Head(str))
         THEN IF Len(str) > 1 /\ IsSpace(str[2])
              THEN CollapseSpaces(Tail(str))
              ELSE <<SPACE>> \o CollapseSpaces(Tail(str))
         ELSE <<Head(str)>> \o CollapseSpaces(Tail(str))

RECURSIVE TrimStart(_)
TrimStart(str) ==
    IF str # <<>> /\ IsSpace(Head(str)) THEN TrimStart(Tail(str)) ELSE str

RECURSIVE TrimEnd(_)
TrimEnd(str) ==
    IF str # <<>> /\ IsSpace(str[Len(str)])
    THEN TrimEnd(SubSeq(str, 1, Len(str) - 1))
    ELSE str

\* String.prototype.trim
Trim(str) == TrimEnd(TrimStart(str))

\* The assertion \b at the boundary before position p (1..Len+1) of str.
WordBoundaryAt(str, p) ==
    LET before == p > 1 /\ IsWordChar(str[p - 1])
        after == p <= Len(str) /\ IsWordChar(str[p])
    IN  before # after

\* Whether /\bword\b/ matches str at position p.
MatchesWordAt(str, word, p) ==
    /\ p + Len(word) - 1 <= Len(str)
    /\ SubSeq(str, p, p + Len(word) - 1) = word
    /\ WordBoundaryAt(str, p)
    /\ WordBoundaryAt(str, p + Len(word))

\* str.replace(new RegExp(`\\b${word}\\b`, 'g'), ''), scanning from position p.
RECURSIVE ReplaceWordFrom(_, _, _)
ReplaceWordFrom(str, word, p) ==
    IF p > Len(str) THEN <<>>
    ELSE IF MatchesWordAt(str, word, p)
         THEN ReplaceWordFrom(str, word, p + Len(word))
         ELSE <<str[p]>> \o ReplaceWordFrom(str, word, p + 1)

ReplaceWord(str, word) == ReplaceWordFrom(str, word, 1)

\* The removeWords vocabulary of cleanCompanyName, in the source's order.
removeWords ==
    << Cyr(<<"o", "b", "l", "a", "s", "t", "soft">>),
       Cyr(<<"k", "r", "a", "j">>),
       Cyr(<<"r", "e", "s", "p", "u", "b", "l", "i", "k", "a">>),
       Cyr(<<"o", "k", "r", "u", "g">>),
       Cyr(<<"m", "o", "s", "k", "v", "a">>),
       Cyr(<<"m", "o", "s", "k", "o", "v", "s", "k", "a", "ya">>),
       Cyr(<<"s", "a", "n", "k", "t">>) \o <<HYPHEN>>
           \o Cyr(<<"p", "e", "t", "e", "r", "b", "u", "r", "g">>),
       Cyr(<<"l", "e", "n", "i", "n", "g", "r", "a", "d", "s", "k", "a", "ya">>),
       Cyr(<<"n", "o", "v", "o", "s", "i", "b", "i", "r", "s", "k">>),
       Cyr(<<"r", "a", "j", "o", "n">>),
       Cyr(<<"g", "o", "r", "o", "d">>),
       Cyr(<<"p", "a", "o">>),
       Cyr(<<"o", "a", "o">>),
       Cyr(<<"o", "o", "o">>),
       Cyr(<<"z", "a", "o">>),
       Cyr(<<"a", "o">>),
       Cyr(<<"g", "r", "u", "p", "p", "a">>),
       Cyr(<<"k", "o", "m", "p", "a", "n", "i", "j">>),
       Cyr(<<"k", "o", "m", "p", "a", "n", "i", "ya">>),
       Cyr(<<"k", "o", "r", "p", "o", "r", "a", "c", "i", "ya">>),
       Cyr(<<"h", "o", "l", "d", "i", "n", "g">>),
       Cyr(<<"f", "i", "l", "i", "a", "l">>),
       Cyr(<<"p", "r", "e", "d", "s", "t", "a", "v", "i", "t", "e", "l",
             "soft", "s", "t", "v", "o">>) >>

\* removeWords.forEach(word => cleanName = cleanName.replace(...)), from word k on.
RECURSIVE RemoveWordsFrom(_, _)
RemoveWordsFrom(str, k) ==
    IF k > Len(removeWords) THEN str
    ELSE RemoveWordsFrom(ReplaceWord(str, removeWords[k]), k + 1)

cleanCompanyName(company) ==
    LET lowered == Trim(CollapseSpaces(RemoveQuotes(toLowerCase(company))))
    IN  Trim(CollapseSpaces(RemoveWordsFrom(lowered, 1)))

(***************************************************************************)
(* Program constants                                                       *)
(***************************************************************************)
TIMEOUT_MS == 15000
MAX_RETRIES == 2
BATCH_SIZE == 10
DELAY_BETWEEN_REQUESTS == 100
MAX_DURATION_SEC == 60
SAFETY_MARGIN_SEC == 10
MAX_EXECUTION_MS == (MAX_DURATION_SEC - SAFETY_MARGIN_SEC) * 1000
MAX_RESULTS_PER_COMPANY == 1000
ITEMS_PER_PAGE == 100
\* parseInt(searchParams.get('totalLimit') || '100', 10)
DEFAULT_TOTAL_LIMIT == 100
\* allItems.slice(0, isPreview ? 10 : totalLimit)
PREVIEW_LIMIT == 10
\* Milliseconds in a day: the unit of Date arithmetic.
DAY_MS == 86400000

(***************************************************************************)
(* Bounds of the model                                                     *)
(***************************************************************************)
\* The largest explicit totalLimit of a request (the default 100 is kept too).
MaxLimit == 2
\* The longest string cleanCompanyName is applied to on its own.
MaxNameLen == 5
\* How far below MAX_RESULTS_PER_COMPANY a company's items may stand when the
\* pagination loop is taken up near its cap.
MaxBelowCap == 2
\* The clock reading (ms) up to which a call may still be slow.
MaxClock == 60000

(***************************************************************************)
(* Array helpers                                                           *)
(***************************************************************************)
Min(a, b) == IF a <= b THEN a ELSE b
Max(a, b) == IF a >= b THEN a ELSE b

\* Array.prototype.slice(0, end), end an integer (a negative end counts from
\* the end of the array).
SliceTo(arr, end) ==
    LET stop == IF end < 0 THEN Max(Len(arr) + end, 0) ELSE Min(end, Len(arr))
    IN  SubSeq(arr, 1, stop)

\* Array.prototype.slice(from, from + count), from 0-based.
SliceFrom(arr, from, count) ==
    SubSeq(arr, Min(from, Len(arr)) + 1, Min(from + count, Len(arr)))

\* Array.from(new Set(arr)): the first occurrence of each value, in order.
RECURSIVE Unique(_)
Unique(arr) ==
    IF arr = <<>> THEN <<>>
    ELSE LET init == Unique(SubSeq(arr, 1, Len(arr) - 1))
             last == arr[Len(arr)]
         IN  IF \E k \in 1..Len(init) : init[k] = last THEN init
             ELSE Append(init, last)

\* Whether part occurs in str as a substring.
Contains(str, part) ==
    \E p \in 1..(Len(str) - Len(part) + 1) : SubSeq(str, p, p + Len(part) - 1) = part

(***************************************************************************)
(* The environment: company names, the company sheet, the upstream's       *)
(* resumes and the responses it may give                                   *)
(***************************************************************************)
NameRomashka == Cap(Cyr(<<"r", "o", "m", "a", "sh", "k", "a">>))
NameAkme == Cap(Cyr(<<"a", "k", "m", "e">>))
SheetHeader == Cap(Lat(<<"c", "o", "m", "p", "a", "n", "y">>))

\* Column A of the company sheet, header row first.
MainSheet == <<SheetHeader, <<LAQUO>> \o NameRomashka \o <<RAQUO>>, NameAkme>>

\* A sheet that names the first company twice, in two spellings.
TwiceSheet == <<SheetHeader, NameRomashka, <<LAQUO>> \o NameRomashka \o <<RAQUO>>>>

OtherSheets ==
    { <<SheetHeader, <<DQUOTE, DQUOTE>>, <<SPACE>> \o NameAkme \o <<SPACE>>, NameAkme>>,
      <<SheetHeader>>,
      <<>> }

\* The query text "hr".
TextHr == Lat(<<"h", "r">>)

\* An employment-history entry: company (the empty string when absent) and
\* end, the day of its end date counted from the day the request arrives
\* (hasEnd FALSE: no end date).
Exp(company, hasEnd, end) == [company |-> company, hasEnd |-> hasEnd, end |-> end]

\* The resumes the upstream knows, by id: 1 works at the first company; 2 left
\* the second 400 days ago; 3 left the second 10 days ago and works at the
\* first; 4 has no employment history; 5 left the second 365 days ago.
ResumeIds == 1..5

ResumeExperience(id) ==
    CASE id = 1 -> << Exp(NameRomashka, FALSE, 0) >>
      [] id = 2 -> << Exp(NameAkme, TRUE, -400) >>
      [] id = 3 -> << Exp(<<LAQUO>> \o NameAkme \o <<RAQUO>>, TRUE, -10),
                      Exp(NameRomashka, FALSE, 0) >>
      [] id = 4 -> << >>
      [] OTHER  -> << Exp(NameAkme, TRUE, -365) >>

\* The item arrays a search page may hold.
PageChoices == { <<>>, <<1, 2, 4>>, <<3, 5>> }

\* The found counts a search page may report: nothing, or one full page.
FoundChoices == { 0, ITEMS_PER_PAGE }

\* How long an awaited call may take, in ms: no measurable time, or the 15 s
\* the timeout allows for the response's headers and as much again for its body.
Durations == { 0, 2 * TIMEOUT_MS }

\* The outcomes of a request to the recruiting platform: status OK, status 429,
\* another status that is not OK (403, 500, ...), a network error, and the
\* abort by the timer of fetchWithTimeout.
Outcomes == { "ok", "rate_limited", "http_error", "network_error", "timeout" }

\* The lengths in days of the calendar year that ends at the request.
YearLengths == { 365, 366 }

(***************************************************************************)
(* isRecentOrCurrentExperience, at clock reading t (ms since 00:00 UTC of  *)
(* the day the request arrives); yearLen is the number of days that        *)
(* setFullYear(getFullYear() - 1) goes back.                               *)
(*   endDate >= oneYearAgo  <=>  end * DAY_MS >= t - yearLen * DAY_MS      *)
(*                          <=>  end + yearLen >= ceil(t / DAY_MS)         *)
(***************************************************************************)
isRecentOrCurrentExperience(exp, t, yearLen) ==
    \/ ~exp.hasEnd
    \/ exp.end + yearLen >= (t + DAY_MS - 1) \div DAY_MS

\* Mutant of IsExactMatch: the filter forgets the recency rule.
IsExactMatchAnyDate(id, cleanName, t, yearLen) ==
    \E k \in 1..Len(ResumeExperience(id)) :
        cleanCompanyName(ResumeExperience(id)[k].company) = cleanName

\* The predicate of data.items.filter in fetchResumes.
IsExactMatch(id, cleanName, t, yearLen) ==
    \E k \in 1..Len(ResumeExperience(id)) :
        LET exp == ResumeExperience(id)[k]
            expCompanyClean == cleanCompanyName(exp.company)
            isCompanyMatch == expCompanyClean = cleanName
        IN  isCompanyMatch /\ isRecentOrCurrentExperience(exp, t, yearLen)

\* A search result as the run holds it: the resume and whether the detail
\* fields (status, lastJobDescription) were added.
Item(id, enriched) == [id |-> id, enriched |-> enriched]

\* data.items.filter(...) of one page.
FilterPage(items, cleanName, t, yearLen) ==
    LET kept == SelectSeq(items, LAMBDA id : IsExactMatch(id, cleanName, t, yearLen))
    IN  [k \in 1..Len(kept) |-> Item(kept[k], FALSE)]

\* const fullQuery = `"${cleanName}"~1`
FullQuery(searchText, cleanName) ==
    <<DQUOTE>> \o cleanName \o <<DQUOTE, TILDE, DIGIT1>>

\* rows.slice(1).map(row => row[0]?.trim()).filter(Boolean), made unique.
CompaniesOfRows(rows) ==
    LET cells == [k \in 1..(Len(rows) - 1) |-> Trim(rows[k + 1])]
    IN  Unique(SelectSeq(cells, LAMBDA cell : cell # <<>>))

\* Every company name of the environment: the cells of the sheets and the
\* companies of the resumes' entries.
KnownNames ==
    UNION { { CompaniesOfRows(sheet)[k] : k \in 1..Len(CompaniesOfRows(sheet)) } :
            sheet \in {MainSheet, TwiceSheet} \cup OtherSheets }
    \cup UNION { { ResumeExperience(id)[k].company : k \in 1..Len(ResumeExperience(id)) } :
                 id \in ResumeIds }

\* cleanCompanyName of each of them, computed once.
CleanedName == [name \in KnownNames |-> cleanCompanyName(name)]

(***************************************************************************)
(* State                                                                   *)
(***************************************************************************)
VARIABLES
    pc,             \* where the handler (or the function under study) stands
    now,            \* Date.now(), ms since 00:00 UTC of the day the request arrives
    yearLen,        \* days that setFullYear(getFullYear() - 1) goes back
    request,        \* the query parameters and the company sheet they name
    getStart,       \* GET: startTime
    companies,      \* GET: companies
    startTime,      \* fetchResumes: startTime
    ci,             \* fetchResumes: index (1-based) of the company of the for loop
    cleanName,      \* fetchResumes: cleanName
    page,           \* fetchResumes: page
    companyItems,   \* fetchResumes: companyItems
    allItems,       \* fetchResumes: allItems
    enrichedItems,  \* fetchResumes: enrichedItems
    batchStart,     \* fetchResumes: i of the batch loop
    batchPos,       \* fetchResumes: index (1-based) in batch of the item being enriched
    retries,        \* fetchResumeDetails: retries
    inflight,       \* the outbound call to the recruiting platform in flight
    attempts,       \* the requests sent so far for the page or the item in progress
    answer,         \* the upstream's answer that the last step received
    waited,         \* fetchResumeDetails: the waitTime the last step waited (0: none)
    details,        \* what fetchResumeDetails returned in the last step
    stopped,        \* the loops that ended on their time-limit branch
    errorLogged,    \* the console.error of the last step ("none": it logged none)
    sheetRows,      \* what was written to the Resume_output tab
    response,       \* the handler's response
    input,          \* a function on its own: what it is applied to
    output,         \* a function on its own: what it returned
    dashboard,      \* what the dashboard shows the user for the response
    companyIds,     \* vacancy route: the employer ids found for the company
    idPos,          \* vacancy route: the place of the inner loop in companyIds
    retryCount      \* OAuth callback: the retryCount of getAccessToken

\* The state of the request handler.
runVars == << pc, now, yearLen, request, getStart, companies, startTime, ci, cleanName,
              page, companyItems, allItems, enrichedItems, batchStart, batchPos,
              retries, inflight, attempts, answer, waited, details, stopped,
              errorLogged, sheetRows, response >>

\* The state of a function applied on its own (cleanCompanyName, the output
\* formatters).
fnVars == << input, output >>

\* The state the vacancy route has beside pc, request, companies, ci, page,
\* companyItems, allItems, inflight, answer and response.
vacVars == << companyIds, idPos >>

\* The state the OAuth callback has beside pc, now, request, inflight,
\* attempts, answer, waited and response.
oauthVars == << retryCount >>

vars == << runVars, fnVars, dashboard, vacVars, oauthVars >>

NoCall == [kind |-> "none"]
SearchCall(text, pageNo) == [kind |-> "search", text |-> text, page |-> pageNo]
DetailCall(id) == [kind |-> "detail", id |-> id]

NoResponse == [kind |-> "none"]
ErrorResponse(message) == [kind |-> "error", status |-> 500, error |-> message]
PreviewResponse(items) == [kind |-> "preview", status |-> 200, items |-> items]
StatusResponse(success, message, count) ==
    [kind |-> "status", status |-> 200, success |-> success, message |-> message,
     count |-> count]

\* What handleSearch of the dashboard shows once the request has settled: an
\* alert, the error line, the preview table.
NothingShown == [alert |-> "none", error |-> "none", preview |-> <<>>]
Shows(alert, error, preview) == [alert |-> alert, error |-> error, preview |-> preview]

\* The upstream's answers: to a search request (its outcome, the time it took,
\* and for an OK answer its items and found), and to a detail request.
NoAnswer == [kind |-> "none"]
PageAnswer(outcome, d, items, found) ==
    [kind |-> "page", outcome |-> outcome, duration |-> d, items |-> items, found |-> found]
DetailAnswer(outcome, d) == [kind |-> "details", outcome |-> outcome, duration |-> d]

\* What fetchResumeDetails returns: the object with status and
\* lastJobDescription (line 90), or null (line 102).
NotReturned == [kind |-> "none"]
DetailsObject == [kind |-> "details"]
Null == [kind |-> "null"]

\* A step that receives no answer from the upstream.
NoAnswerStep ==
    /\ answer' = NoAnswer
    /\ waited' = 0
    /\ details' = NotReturned

NotWritten == [written |-> FALSE, rows |-> <<>>]
Written(items) == [written |-> TRUE, rows |-> items]

\* The requests: with a query text and an explicit totalLimit over the main
\* sheet, with an explicit totalLimit over the sheet that names a company
\* twice, with neither (totalLimit defaults to 100) over the other sheets, and
\* the malformed ones.
Requests ==
    [ text : {TextHr}, totalLimit : 0..MaxLimit, mode : {"full", "preview"},
      accessToken : {TRUE}, sheetUrl : {"valid"}, sheet : {MainSheet} ]
    \cup
    [ text : {<<>>}, totalLimit : {MaxLimit}, mode : {"full", "preview"},
      accessToken : {TRUE}, sheetUrl : {"valid"}, sheet : {TwiceSheet} ]
    \cup
    [ text : {<<>>}, totalLimit : {DEFAULT_TOTAL_LIMIT}, mode : {"full", "preview"},
      accessToken : {TRUE}, sheetUrl : {"valid"}, sheet : OtherSheets ]
    \cup
    [ text : {<<>>}, totalLimit : {DEFAULT_TOTAL_LIMIT}, mode : {"full"},
      accessToken : {FALSE}, sheetUrl : {"valid"}, sheet : {<<>>} ]
    \cup
    [ text : {<<>>}, totalLimit : {DEFAULT_TOTAL_LIMIT}, mode : {"full"},
      accessToken : {TRUE}, sheetUrl : {"missing", "invalid"}, sheet : {<<>>} ]

Init ==
    /\ pc = "get"
    /\ now = 0
    /\ yearLen \in YearLengths
    /\ request \in Requests
    /\ getStart = 0
    /\ companies = <<>>
    /\ startTime = 0
    /\ ci = 1
    /\ cleanName = <<>>
    /\ page = 0
    /\ companyItems = <<>>
    /\ allItems = <<>>
    /\ enrichedItems = <<>>
    /\ batchStart = 0
    /\ batchPos = 1
    /\ retries = MAX_RETRIES
    /\ inflight = NoCall
    /\ attempts = 0
    /\ answer = NoAnswer
    /\ waited = 0
    /\ details = NotReturned
    /\ stopped = {}
    /\ errorLogged = "none"
    /\ sheetRows = NotWritten
    /\ response = NoResponse
    /\ input = <<>>
    /\ output = <<>>
    /\ dashboard = NothingShown
    /\ companyIds = <<>>
    /\ idPos = 1
    /\ retryCount = 0

\* The durations an awaited call may take now: a slow call only while the
\* clock stays within MaxClock.
CallDurations == { d \in Durations : d = 0 \/ now + d <= MaxClock }

\* How long a call through fetchWithTimeout may take now, by its outcome.  The
\* timer of fetchWithTimeout runs until fetch resolves with the response's
\* headers (line 53 clears it): a status arrives within the timeout, the abort
\* comes at the timeout, and the body of an OK response is read by
\* response.json() (lines 89, 235) with no timer left.
AnswerDurations(outcome) ==
    IF outcome = "ok" THEN CallDurations
    ELSE IF outcome = "timeout" THEN { d \in {TIMEOUT_MS} : now + d <= MaxClock }
    ELSE {0}

\* Date.now() - startTime > MAX_EXECUTION_MS
TimeExceeded(start) == now - start > MAX_EXECUTION_MS

(***************************************************************************)
(* GET, up to the call of fetchResumes                                     *)
(***************************************************************************)
\* Lines 480-497: read the parameters; a missing token or sheet URL and an
\* invalid sheet URL throw, and the catch answers 500.
GetStart ==
    /\ pc = "get"
    /\ getStart' = now
    /\ IF ~request.accessToken \/ request.sheetUrl = "missing"
       THEN /\ response' = ErrorResponse("Access token and Google Sheet URL are required")
            /\ errorLogged' = "request"
            /\ pc' = "done"
       ELSE IF request.sheetUrl = "invalid"
       THEN /\ response' = ErrorResponse("Invalid Google Sheet URL")
            /\ errorLogged' = "request"
            /\ pc' = "done"
       ELSE /\ response' = response
            /\ errorLogged' = "none"
            /\ pc' = "sheet_read"
    /\ NoAnswerStep
    /\ UNCHANGED << now, yearLen, request, companies, startTime, ci, cleanName, page,
                    companyItems, allItems, enrichedItems, batchStart, batchPos,
                    retries, inflight, attempts, stopped, sheetRows, fnVars, dashboard, vacVars, oauthVars >>

\* Line 500, fetchCompaniesFromSheet: the read of column A takes d ms and
\* succeeds or fails; no rows at all also throws.  On success fetchResumes
\* starts (line 166).
SheetRead ==
    /\ pc = "sheet_read"
    /\ \E d \in CallDurations, ok \in BOOLEAN :
        /\ now' = now + d
        /\ IF ~ok \/ request.sheet = <<>>
           THEN /\ response' = ErrorResponse("Failed to fetch companies from Google Sheet")
                /\ errorLogged' = "request"
                /\ pc' = "done"
                /\ UNCHANGED << companies, startTime >>
           ELSE /\ companies' = CompaniesOfRows(request.sheet)
                /\ errorLogged' = "none"
                /\ startTime' = now'
                /\ pc' = "company_loop"
                /\ response' = response
    /\ NoAnswerStep
    /\ UNCHANGED << yearLen, request, getStart, ci, cleanName, page, companyItems,
                    allItems, enrichedItems, batchStart, batchPos, retries, inflight,
                    attempts, stopped, sheetRows, fnVars, dashboard, vacVars, oauthVars >>

(***************************************************************************)
(* fetchResumes: the company loop and the pagination loop                  *)
(***************************************************************************)
\* Mutant of EndCompany: the company's items are put before the others.
EndCompanyPrepends(items) ==
    /\ allItems' = items \o allItems
    /\ ci' = ci + 1
    /\ pc' = "company_loop"

\* Lines 262-264 and the next iteration of the for loop: the company's items
\* join allItems.
EndCompany(items) ==
    /\ allItems' = allItems \o items
    /\ ci' = ci + 1
    /\ pc' = "company_loop"

\* Mutant of StartEnrichment: allItems is not cut to the limit.
StartEnrichmentUncut ==
    /\ allItems' = allItems
    /\ enrichedItems' = <<>>
    /\ batchStart' = 0
    /\ pc' = "batch_loop"

\* Lines 267-271: the company loop is over; allItems is cut to the limit and
\* the enrichment starts.
StartEnrichment ==
    /\ allItems' = SliceTo(allItems, request.totalLimit)
    /\ enrichedItems' = <<>>
    /\ batchStart' = 0
    /\ pc' = "batch_loop"

\* Mutant of CompanyLoop: the test of line 176 is missing.
CompanyLoopUnlimited ==
    /\ pc = "company_loop"
    /\ IF ci > Len(companies)
       THEN StartEnrichment /\ UNCHANGED << stopped, ci, cleanName, page, companyItems >>
       ELSE IF TimeExceeded(startTime)
       THEN /\ StartEnrichment
            /\ stopped' = stopped \cup {"company"}
            /\ UNCHANGED << ci, cleanName, page, companyItems >>
       ELSE IF CleanedName[companies[ci]] = <<>>
       THEN /\ ci' = ci + 1
            /\ UNCHANGED << pc, stopped, cleanName, page, companyItems, allItems,
                            enrichedItems, batchStart >>
       ELSE /\ cleanName' = CleanedName[companies[ci]]
            /\ page' = 0
            /\ companyItems' = <<>>
            /\ pc' = "page_loop"
            /\ UNCHANGED << stopped, ci, allItems, enrichedItems, batchStart >>
    /\ errorLogged' = "none"
    /\ NoAnswerStep
    /\ UNCHANGED << now, yearLen, request, getStart, companies, startTime, batchPos,
                    retries, inflight, attempts, sheetRows, response, fnVars, dashboard, vacVars, oauthVars >>

\* Mutant of CompanyLoop: a name that cleans to the empty string is searched
\* like any other (lines 184-187 missing).
CompanyLoopSearchesEmpty ==
    /\ pc = "company_loop"
    /\ IF ci > Len(companies)
       THEN StartEnrichment /\ UNCHANGED << stopped, ci, cleanName, page, companyItems >>
       ELSE IF TimeExceeded(startTime)
       THEN /\ StartEnrichment
            /\ stopped' = stopped \cup {"company"}
            /\ UNCHANGED << ci, cleanName, page, companyItems >>
       ELSE IF Len(allItems) >= request.totalLimit
       THEN StartEnrichment /\ UNCHANGED << stopped, ci, cleanName, page, companyItems >>
       ELSE /\ cleanName' = CleanedName[companies[ci]]
            /\ page' = 0
            /\ companyItems' = <<>>
            /\ pc' = "page_loop"
            /\ UNCHANGED << stopped, ci, allItems, enrichedItems, batchStart >>
    /\ errorLogged' = "none"
    /\ NoAnswerStep
    /\ UNCHANGED << now, yearLen, request, getStart, companies, startTime, batchPos,
                    retries, inflight, attempts, sheetRows, response, fnVars, dashboard, vacVars, oauthVars >>

\* Lines 169-206: the head of one iteration of the company loop.  The name
\* is cleaned by cleanCompanyName (line 182), whose results for the names of
\* the sheets are looked up in CleanedName.
CompanyLoop ==
    /\ pc = "company_loop"
    /\ IF ci > Len(companies)
       THEN StartEnrichment /\ UNCHANGED << stopped, ci, cleanName, page, companyItems >>
       ELSE IF TimeExceeded(startTime)
       THEN /\ StartEnrichment
            /\ stopped' = stopped \cup {"company"}
            /\ UNCHANGED << ci, cleanName, page, companyItems >>
       ELSE IF Len(allItems) >= request.totalLimit
       THEN StartEnrichment /\ UNCHANGED << stopped, ci, cleanName, page, companyItems >>
       ELSE IF CleanedName[companies[ci]] = <<>>
       THEN /\ ci' = ci + 1
            /\ UNCHANGED << pc, stopped, cleanName, page, companyItems, allItems,
                            enrichedItems, batchStart >>
       ELSE /\ cleanName' = CleanedName[companies[ci]]
            /\ page' = 0
            /\ companyItems' = <<>>
            /\ pc' = "page_loop"
            /\ UNCHANGED << stopped, ci, allItems, enrichedItems, batchStart >>
    /\ errorLogged' = "none"
    /\ NoAnswerStep
    /\ UNCHANGED << now, yearLen, request, getStart, companies, startTime, batchPos,
                    retries, inflight, attempts, sheetRows, response, fnVars, dashboard, vacVars, oauthVars >>

\* Mutant of PageLoop: the tests of line 210 go on with the loop instead of
\* breaking out of it, so the loop spins once the time or the cap is reached.
PageLoopSpins ==
    /\ pc = "page_loop"
    /\ IF TimeExceeded(startTime) \/ Len(companyItems) >= MAX_RESULTS_PER_COMPANY
       THEN UNCHANGED << pc, allItems, ci, stopped, inflight, attempts, errorLogged,
                         answer, waited, details >>
       ELSE /\ inflight' = SearchCall(FullQuery(request.text, cleanName), page)
            /\ attempts' = 1
            /\ pc' = "page_wait"
            /\ errorLogged' = "none"
            /\ NoAnswerStep
            /\ UNCHANGED << allItems, ci, stopped >>
    /\ UNCHANGED << now, yearLen, request, getStart, companies, startTime, cleanName,
                    page, companyItems, enrichedItems, batchStart, batchPos, retries,
                    sheetRows, response, fnVars, dashboard, vacVars, oauthVars >>

\* Lines 208-228: the head of the pagination loop; unless the time or the
\* per-company limit stops it, the request for the page is sent.
PageLoop ==
    /\ pc = "page_loop"
    /\ IF TimeExceeded(startTime) \/ Len(companyItems) >= MAX_RESULTS_PER_COMPANY
       THEN /\ EndCompany(companyItems)
            /\ stopped' = IF TimeExceeded(startTime) THEN stopped \cup {"page"} ELSE stopped
            /\ UNCHANGED << inflight, attempts >>
       ELSE /\ inflight' = SearchCall(FullQuery(request.text, cleanName), page)
            /\ attempts' = 1
            /\ pc' = "page_wait"
            /\ UNCHANGED << allItems, ci, stopped >>
    /\ errorLogged' = "none"
    /\ NoAnswerStep
    /\ UNCHANGED << now, yearLen, request, getStart, companies, startTime, cleanName,
                    page, companyItems, enrichedItems, batchStart, batchPos, retries,
                    sheetRows, response, fnVars, dashboard, vacVars, oauthVars >>

\* Lines 230-255 for a page that arrived with status OK, items and found.
PageArrived(items, found) ==
    /\ errorLogged' = "none"
    /\ IF items = <<>>
       THEN EndCompany(companyItems) /\ UNCHANGED << companyItems, page >>
       ELSE LET newItems == FilterPage(items, cleanName, now', yearLen)
            IN  /\ companyItems' = companyItems \o newItems
                /\ IF page * ITEMS_PER_PAGE >= found
                   THEN EndCompany(companyItems \o newItems) /\ UNCHANGED page
                   ELSE /\ page' = page + 1
                        /\ pc' = "page_loop"
                        /\ UNCHANGED << allItems, ci >>

\* Mutant of PageFailed: the catch forgets the items of the pages before.
PageFailedDropsItems ==
    /\ errorLogged' = "page"
    /\ EndCompany(<<>>)
    /\ UNCHANGED << companyItems, page >>

\* Lines 256-259: the request failed (status not OK, network error, timeout,
\* unreadable body); the catch ends the company's pagination.
PageFailed ==
    /\ errorLogged' = "page"
    /\ EndCompany(companyItems)
    /\ UNCHANGED << companyItems, page >>

\* Lines 222-259: the answer to the page request in flight, d ms after it was
\* sent.  Every outcome but OK is thrown (line 232, or by fetchWithTimeout)
\* into the catch of line 256.
PageResponse ==
    /\ pc = "page_wait"
    /\ \E outcome \in Outcomes :
        \E d \in AnswerDurations(outcome) :
            /\ now' = now + d
            /\ IF outcome = "ok"
               THEN \E items \in PageChoices, found \in FoundChoices :
                        /\ PageArrived(items, found)
                        /\ answer' = PageAnswer(outcome, d, items, found)
               ELSE /\ PageFailed
                    /\ answer' = PageAnswer(outcome, d, <<>>, 0)
    /\ inflight' = NoCall
    /\ waited' = 0
    /\ details' = NotReturned
    /\ UNCHANGED << yearLen, request, getStart, companies, startTime, cleanName,
                    enrichedItems, batchStart, batchPos, retries, attempts, stopped,
                    sheetRows, response, fnVars, dashboard, vacVars, oauthVars >>

(***************************************************************************)
(* fetchResumes: the enrichment loop, and fetchResumeDetails               *)
(***************************************************************************)
\* const batch = allItems.slice(i, i + BATCH_SIZE)
Batch == SliceFrom(allItems, batchStart, BATCH_SIZE)

\* Lines 274-285: the head of the batch loop; it ends the function when all
\* batches are done or the time is exceeded, else the first item of the batch
\* gets its detail call.
BatchLoop ==
    /\ pc = "batch_loop"
    /\ IF batchStart >= Len(allItems)
       THEN pc' = "return" /\ UNCHANGED << stopped, batchPos, retries >>
       ELSE IF TimeExceeded(startTime)
       THEN /\ pc' = "return"
            /\ stopped' = stopped \cup {"enrich"}
            /\ UNCHANGED << batchPos, retries >>
       ELSE /\ batchPos' = 1
            /\ retries' = MAX_RETRIES
            /\ pc' = "detail_send"
            /\ UNCHANGED stopped
    /\ errorLogged' = "none"
    /\ NoAnswerStep
    /\ UNCHANGED << now, yearLen, request, getStart, companies, startTime, ci,
                    cleanName, page, companyItems, allItems, enrichedItems, batchStart,
                    inflight, attempts, sheetRows, response, fnVars, dashboard, vacVars, oauthVars >>

\* Mutant of DetailSend: the call is not awaited; the requests of the batch's
\* items are sent one after the other and only the last is waited for.
DetailSendUnawaited ==
    /\ pc = "detail_send"
    /\ inflight' = DetailCall(Batch[batchPos].id)
    /\ attempts' = IF retries = MAX_RETRIES THEN 1 ELSE attempts + 1
    /\ IF batchPos < Len(Batch) /\ retries = MAX_RETRIES
       THEN batchPos' = batchPos + 1 /\ pc' = pc
       ELSE batchPos' = batchPos /\ pc' = "detail_wait"
    /\ errorLogged' = "none"
    /\ NoAnswerStep
    /\ UNCHANGED << now, yearLen, request, getStart, companies, startTime, ci,
                    cleanName, page, companyItems, allItems, enrichedItems, batchStart,
                    retries, stopped, sheetRows, response, fnVars, dashboard, vacVars, oauthVars >>

\* Lines 66-74: fetchResumeDetails sends the request for the item's details.
\* The call from the enrichment loop (line 285, retries at its default) sends
\* the item's first request, a call of fetchResumeDetails by itself one more.
DetailSend ==
    /\ pc = "detail_send"
    /\ inflight' = DetailCall(Batch[batchPos].id)
    /\ attempts' = IF retries = MAX_RETRIES THEN 1 ELSE attempts + 1
    /\ pc' = "detail_wait"
    /\ errorLogged' = "none"
    /\ NoAnswerStep
    /\ UNCHANGED << now, yearLen, request, getStart, companies, startTime, ci,
                    cleanName, page, companyItems, allItems, enrichedItems, batchStart,
                    batchPos, retries, stopped, sheetRows, response, fnVars, dashboard, vacVars, oauthVars >>

\* Mutant of WaitTime: the wait shrinks with the retries that are left.
WaitTimeOfRetriesLeft == retries * 1000

\* const waitTime = (MAX_RETRIES - retries + 1) * 1000
WaitTime == (MAX_RETRIES - retries + 1) * 1000

\* Mutant of Retried: the retries are not counted.
RetriedWhileFailing(outcome) == outcome # "ok"

\* Whether fetchResumeDetails calls itself again after this outcome: on 429
\* (line 77) and in the catch (line 95), while retries are left.
Retried(outcome) == outcome # "ok" /\ retries > 0

\* Mutant of ItemDone: an item whose details could not be fetched is dropped.
ItemDoneDropsFailed(returned, t) ==
    LET item == Batch[batchPos]
        ok == returned # Null
        lastOfBatch == batchPos >= Len(Batch)
    IN  /\ enrichedItems' = IF ok THEN Append(enrichedItems, Item(item.id, TRUE))
                                  ELSE enrichedItems
        /\ details' = returned
        /\ errorLogged' = IF ok THEN "none" ELSE "detail"
        /\ retries' = MAX_RETRIES
        /\ now' = t + DELAY_BETWEEN_REQUESTS
        /\ IF ~lastOfBatch
           THEN batchPos' = batchPos + 1 /\ pc' = "detail_send" /\ UNCHANGED batchStart
           ELSE batchStart' = batchStart + BATCH_SIZE /\ pc' = "batch_loop"
                /\ UNCHANGED batchPos

\* Mutant of ItemDone: the delay of line 295 after each item is missing; only
\* the delay between batches is left.
ItemDoneUnthrottled(returned, t) ==
    LET item == Batch[batchPos]
        ok == returned # Null
        pushed == IF ok THEN Item(item.id, TRUE) ELSE item
        lastOfBatch == batchPos >= Len(Batch)
        moreBatches == batchStart + BATCH_SIZE < Len(allItems)
    IN  /\ enrichedItems' = Append(enrichedItems, pushed)
        /\ details' = returned
        /\ errorLogged' = IF ok THEN "none" ELSE "detail"
        /\ retries' = MAX_RETRIES
        /\ IF ~lastOfBatch
           THEN /\ batchPos' = batchPos + 1
                /\ now' = t
                /\ pc' = "detail_send"
                /\ UNCHANGED batchStart
           ELSE /\ batchStart' = batchStart + BATCH_SIZE
                /\ now' = IF moreBatches THEN t + DELAY_BETWEEN_REQUESTS ELSE t
                /\ pc' = "batch_loop"
                /\ UNCHANGED batchPos

\* Lines 286-301: fetchResumeDetails returned (the details, or null after the
\* console.error of line 101) at time t; the item is pushed, the loop waits
\* and moves on.
ItemDone(returned, t) ==
    LET item == Batch[batchPos]
        ok == returned # Null
        pushed == IF ok THEN Item(item.id, TRUE) ELSE item
        lastOfBatch == batchPos >= Len(Batch)
        moreBatches == batchStart + BATCH_SIZE < Len(allItems)
    IN  /\ enrichedItems' = Append(enrichedItems, pushed)
        /\ details' = returned
        /\ errorLogged' = IF ok THEN "none" ELSE "detail"
        /\ retries' = MAX_RETRIES
        /\ IF ~lastOfBatch
           THEN /\ batchPos' = batchPos + 1
                /\ now' = t + DELAY_BETWEEN_REQUESTS
                /\ pc' = "detail_send"
                /\ UNCHANGED batchStart
           ELSE /\ batchStart' = batchStart + BATCH_SIZE
                /\ now' = IF moreBatches
                          THEN t + DELAY_BETWEEN_REQUESTS + DELAY_BETWEEN_REQUESTS
                          ELSE t + DELAY_BETWEEN_REQUESTS
                /\ pc' = "batch_loop"
                /\ UNCHANGED batchPos

\* Lines 76-103: the outcome of the detail request in flight, d ms after it
\* was sent.  With retries left, 429 (line 77) and whatever reaches the catch
\* (line 95: the throw of line 86 for another status that is not OK, a
\* network error, the abort) wait waitTime and call fetchResumeDetails again;
\* with none left they return null, and OK returns the details.
DetailResponse ==
    /\ pc = "detail_wait"
    /\ \E outcome \in Outcomes :
        \E d \in AnswerDurations(outcome) :
            /\ answer' = DetailAnswer(outcome, d)
            /\ IF Retried(outcome)
               THEN /\ now' = now + d + WaitTime
                    /\ waited' = WaitTime
                    /\ retries' = retries - 1
                    /\ details' = NotReturned
                    /\ errorLogged' = "none"
                    /\ pc' = "detail_send"
                    /\ UNCHANGED << enrichedItems, batchStart, batchPos >>
               ELSE /\ ItemDone(IF outcome = "ok" THEN DetailsObject ELSE Null, now + d)
                    /\ waited' = 0
    /\ inflight' = NoCall
    /\ UNCHANGED << yearLen, request, getStart, companies, startTime, ci, cleanName,
                    page, companyItems, allItems, attempts, stopped, sheetRows,
                    response, fnVars, dashboard, vacVars, oauthVars >>

(***************************************************************************)
(* GET, after fetchResumes                                                 *)
(***************************************************************************)
IsPreview == request.mode = "preview"

\* const limitedItems = allItems.slice(0, isPreview ? 10 : totalLimit), where
\* GET's allItems is what fetchResumes returned.
LimitedItems == SliceTo(enrichedItems, IF IsPreview THEN PREVIEW_LIMIT ELSE request.totalLimit)

\* Lines 503-524: fetchResumes has returned enrichedItems.
GetAfter ==
    /\ pc = "return"
    /\ IF IsPreview
       THEN /\ response' = PreviewResponse(LimitedItems)
            /\ pc' = "done"
       ELSE IF TimeExceeded(getStart)
       THEN /\ response' = StatusResponse(FALSE, "Operation timed out, partial results obtained",
                                          Len(enrichedItems))
            /\ pc' = "done"
       ELSE /\ response' = response
            /\ pc' = "sheet_write"
    /\ errorLogged' = "none"
    /\ NoAnswerStep
    /\ UNCHANGED << now, yearLen, request, getStart, companies, startTime, ci,
                    cleanName, page, companyItems, allItems, enrichedItems, batchStart,
                    batchPos, retries, inflight, attempts, stopped, sheetRows, fnVars, dashboard, vacVars, oauthVars >>

\* Lines 516-521 and 525-530, writeResumesToSheet: the write takes d ms and
\* succeeds or throws.
SheetWrite ==
    /\ pc = "sheet_write"
    /\ \E d \in CallDurations, ok \in BOOLEAN :
        /\ now' = now + d
        /\ IF ok
           THEN /\ sheetRows' = Written(LimitedItems)
                /\ errorLogged' = "none"
                /\ response' = StatusResponse(TRUE, "Data successfully written to sheet",
                                              Len(LimitedItems))
           ELSE /\ sheetRows' = sheetRows
                /\ errorLogged' = "request"
                /\ response' = ErrorResponse("Sheet write failed")
    /\ pc' = "done"
    /\ NoAnswerStep
    /\ UNCHANGED << yearLen, request, getStart, companies, startTime, ci, cleanName,
                    page, companyItems, allItems, enrichedItems, batchStart, batchPos,
                    retries, inflight, attempts, stopped, fnVars, dashboard, vacVars, oauthVars >>

(***************************************************************************)
(* The dashboard, handleSearch of VacancyContactTest.tsx                   *)
(***************************************************************************)
\* The requests handleSearch sends: always with a sheet URL (line 229) and
\* with totalLimit 100 (line 252).
FromDashboard ==
    request.sheetUrl # "missing" /\ request.totalLimit = DEFAULT_TOTAL_LIMIT

\* Lines 255-273: the response of the route has arrived.  A status that is
\* not OK throws into the catch; a preview fills the table; in full mode the
\* alert is shown with data.count.
HandleSearch ==
    /\ pc = "done"
    /\ FromDashboard
    /\ dashboard' =
          IF response.status # 200
          THEN Shows("none", "Failed to fetch data. Please try again.", <<>>)
          ELSE IF request.mode = "preview"
          THEN Shows("none", "none", response.items)
          ELSE Shows("Successfully wrote count resumes to sheet", "none", <<>>)
    /\ pc' = "shown"
    /\ errorLogged' = "none"
    /\ NoAnswerStep
    /\ UNCHANGED << now, yearLen, request, getStart, companies, startTime, ci,
                    cleanName, page, companyItems, allItems, enrichedItems, batchStart,
                    batchPos, retries, inflight, attempts, stopped, sheetRows, response,
                    fnVars, vacVars, oauthVars >>

Next ==
    \/ HandleSearch
    \/ GetStart
    \/ SheetRead
    \/ CompanyLoop
    \/ PageLoop
    \/ PageResponse
    \/ BatchLoop
    \/ DetailSend
    \/ DetailResponse
    \/ GetAfter
    \/ SheetWrite

Spec == Init /\ [][Next]_vars

(***************************************************************************)
(* The handler against an upstream that never runs out of pages: every     *)
(* page that arrives is non-empty and reports a total beyond the next      *)
(* page.  Time advances: a page that arrives has taken TIMEOUT_MS (the     *)
(* longest wait for its headers) or 2 * TIMEOUT_MS (a slow body).  Every   *)
(* step that can be taken is taken in the end: each await of the handler   *)
(* is answered, fails or is aborted.                                       *)
(***************************************************************************)
GrowingFound == (page + 2) * ITEMS_PER_PAGE

PagePositiveDurations == { TIMEOUT_MS, 2 * TIMEOUT_MS }

\* Lines 222-259 against the upstream that never runs out.
GrowingPageResponse ==
    /\ pc = "page_wait"
    /\ \E outcome \in Outcomes :
        IF outcome = "ok"
        THEN \E d \in PagePositiveDurations, items \in PageChoices \ {<<>>} :
                 /\ now' = now + d
                 /\ PageArrived(items, GrowingFound)
                 /\ answer' = PageAnswer(outcome, d, items, GrowingFound)
        ELSE \E d \in AnswerDurations(outcome) :
                 /\ now' = now + d
                 /\ PageFailed
                 /\ answer' = PageAnswer(outcome, d, <<>>, 0)
    /\ inflight' = NoCall
    /\ waited' = 0
    /\ details' = NotReturned
    /\ UNCHANGED << yearLen, request, getStart, companies, startTime, cleanName,
                    enrichedItems, batchStart, batchPos, retries, attempts, stopped,
                    sheetRows, response, fnVars, dashboard, vacVars, oauthVars >>

GrowingInit == Init /\ request.sheet = MainSheet

GrowingNext ==
    \/ GetStart
    \/ SheetRead
    \/ CompanyLoop
    \/ PageLoop
    \/ GrowingPageResponse
    \/ BatchLoop
    \/ DetailSend
    \/ DetailResponse
    \/ GetAfter
    \/ SheetWrite

GrowingSpec == GrowingInit /\ [][GrowingNext]_vars /\ WF_vars(GrowingNext)

(***************************************************************************)
(* The company loop and the pagination loop taken up near the per-company  *)
(* cap: the request for page 10 of the first company is in flight, the ten *)
(* pages before have matched a little less than MAX_RESULTS_PER_COMPANY    *)
(* items, and totalLimit is far away.                                      *)
(***************************************************************************)
\* n items that match the company of NameAkme.
ManyItems(n) == [k \in 1..n |-> Item(3, FALSE)]

NearCapInit ==
    /\ pc = "page_wait"
    /\ now = 0
    /\ yearLen \in YearLengths
    /\ request \in [ text : {TextHr}, totalLimit : {2 * MAX_RESULTS_PER_COMPANY},
                     mode : {"full", "preview"}, accessToken : {TRUE},
                     sheetUrl : {"valid"},
                     sheet : {<<SheetHeader, NameAkme, NameRomashka>>} ]
    /\ getStart = 0
    /\ companies = <<NameAkme, NameRomashka>>
    /\ startTime = 0
    /\ ci = 1
    /\ cleanName = cleanCompanyName(NameAkme)
    /\ page = MAX_RESULTS_PER_COMPANY \div ITEMS_PER_PAGE
    /\ \E short \in 1..MaxBelowCap :
           companyItems = ManyItems(MAX_RESULTS_PER_COMPANY - short)
    /\ allItems = <<>>
    /\ enrichedItems = <<>>
    /\ batchStart = 0
    /\ batchPos = 1
    /\ retries = MAX_RETRIES
    /\ inflight = SearchCall(FullQuery(TextHr, cleanCompanyName(NameAkme)),
                             MAX_RESULTS_PER_COMPANY \div ITEMS_PER_PAGE)
    /\ attempts = 1
    /\ answer = NoAnswer
    /\ waited = 0
    /\ details = NotReturned
    /\ stopped = {}
    /\ errorLogged = "none"
    /\ sheetRows = NotWritten
    /\ response = NoResponse
    /\ input = <<>>
    /\ output = <<>>
    /\ dashboard = NothingShown
    /\ companyIds = <<>>
    /\ idPos = 1
    /\ retryCount = 0

NearCapNext == CompanyLoop \/ PageLoop \/ PageResponse

NearCapSpec == NearCapInit /\ [][NearCapNext]_vars

(***************************************************************************)
(* The enrichment taken up near the end of its first batch: one company    *)
(* has given BATCH_SIZE + 1 items, the first BATCH_SIZE - 2 of them have   *)
(* got their details at once, and the loop stands before the detail call   *)
(* of the next item.  The items left are the last two of the batch and the *)
(* only one of the second batch.                                           *)
(***************************************************************************)
BatchEndInit ==
    /\ pc = "detail_send"
    /\ now = (BATCH_SIZE - 2) * DELAY_BETWEEN_REQUESTS
    /\ yearLen \in YearLengths
    /\ request \in [ text : {TextHr}, totalLimit : {DEFAULT_TOTAL_LIMIT},
                     mode : {"full", "preview"}, accessToken : {TRUE},
                     sheetUrl : {"valid"}, sheet : {<<SheetHeader, NameAkme>>} ]
    /\ getStart = 0
    /\ companies = <<NameAkme>>
    /\ startTime = 0
    /\ ci = 2
    /\ cleanName = cleanCompanyName(NameAkme)
    /\ page = 1
    /\ companyItems = ManyItems(BATCH_SIZE + 1)
    /\ allItems = ManyItems(BATCH_SIZE + 1)
    /\ enrichedItems = [k \in 1..(BATCH_SIZE - 2) |-> Item(3, TRUE)]
    /\ batchStart = 0
    /\ batchPos = BATCH_SIZE - 1
    /\ retries = MAX_RETRIES
    /\ inflight = NoCall
    /\ attempts = 1
    /\ answer = DetailAnswer("ok", 0)
    /\ waited = 0
    /\ details = DetailsObject
    /\ stopped = {}
    /\ errorLogged = "none"
    /\ sheetRows = NotWritten
    /\ response = NoResponse
    /\ input = <<>>
    /\ output = <<>>
    /\ dashboard = NothingShown
    /\ companyIds = <<>>
    /\ idPos = 1
    /\ retryCount = 0

BatchEndNext == BatchLoop \/ DetailSend \/ DetailResponse \/ GetAfter \/ SheetWrite

BatchEndSpec == BatchEndInit /\ [][BatchEndNext]_vars

(***************************************************************************)
(* The output formatters: convertToCSV and the rows of writeResumesToSheet *)
(* of the resume route, escapeCSV and convertToCSV of the vacancy route.   *)
(* An optional value is a sequence of length 0 (undefined or null) or 1.   *)
(* A cell is a string or a number, as in the arrays the code builds.       *)
(***************************************************************************)
COMMA == Ch("p", ",", FALSE)
NEWLINE == Ch("sp", "nl", FALSE)
DOT == Ch("p", ".", FALSE)
SLASH == Ch("p", "/", FALSE)

Text(str) == [t |-> "str", v |-> str]
Num(n) == [t |-> "num", v |-> n]

Digit(d) == Ch("dig", ToString(d), FALSE)

\* String(n) of a natural number.
RECURSIVE Digits(_)
Digits(n) == IF n < 10 THEN <<Digit(n)>> ELSE Digits(n \div 10) \o <<Digit(n % 10)>>

\* The day and month of toLocaleDateString('ru-RU').
TwoDigits(n) == IF n < 10 THEN <<Digit(0), Digit(n)>> ELSE Digits(n)

\* String(cell), also what Array.prototype.join does to an element.
String(cell) == IF cell.t = "num" THEN Digits(cell.v) ELSE cell.v

\* Array.prototype.join.
RECURSIVE Join(_, _)
Join(strs, sep) ==
    IF strs = <<>> THEN <<>>
    ELSE IF Len(strs) = 1 THEN strs[1]
    ELSE strs[1] \o sep \o Join(Tail(strs), sep)

\* str.replace(/"/g, '""')
RECURSIVE DoubleQuotes(_)
DoubleQuotes(str) ==
    IF str = <<>> THEN <<>>
    ELSE (IF Head(str) = DQUOTE THEN <<DQUOTE, DQUOTE>> ELSE <<Head(str)>>)
         \o DoubleQuotes(Tail(str))

\* field.includes(ch)
Includes(field, ch) == \E k \in 1..Len(field) : field[k] = ch

NA == <<Ch("lat", "n", TRUE), SLASH, Ch("lat", "a", TRUE)>>

\* part_002 lines 28-31.  A date is [year, month, day]; the shift of the day
\* by the server's time zone is left out.
formatDate(dateString) ==
    IF dateString = <<>> THEN NA
    ELSE TwoDigits(dateString[1].day) \o <<DOT>> \o TwoDigits(dateString[1].month)
         \o <<DOT>> \o Digits(dateString[1].year)

\* Mutant of OrEmpty: the `|| ''` is missing and the absent value is rendered
\* as it stands.
OrUndefined(opt) ==
    IF opt = <<>> THEN Lat(<<"u", "n", "d", "e", "f", "i", "n", "e", "d">>) ELSE opt[1]

\* value || '' for an optional string.
OrEmpty(opt) == IF opt = <<>> THEN <<>> ELSE opt[1]

\* value || '' for an optional number (0 is falsy).
NumOrEmpty(opt) == IF opt = <<>> \/ opt[1] = 0 THEN Text(<<>>) ELSE Num(opt[1])

\* The twelve column titles of lines 315-328 and 412-425, each stood for by
\* one character that names it.
headers ==
    [k \in 1..12 |->
        Text(<<Ch("hdr", <<"title", "company", "position", "description", "period",
                           "status", "link", "age", "salary", "updated", "city",
                           "total experience">>[k], FALSE)>>)]

EmptyJob == [company |-> <<>>, position |-> <<>>, start |-> <<>>, end |-> <<>>]

\* const lastJob = item.experience?.[0] || {}
LastJob(item) ==
    IF item.experience = <<>> \/ item.experience[1] = <<>>
    THEN EmptyJob
    ELSE item.experience[1][1]

ResumeUrl == <<Ch("url", "https://hh.ru/resume/", FALSE)>>
Years == Cyr(<<"l", "e", "t">>)
Months == Cyr(<<"m", "e", "s", "ya", "ts", "e", "v">>)

\* Lines 330-348 and 427-445: the row of one item.
ResumeRow(item) ==
    LET lastJob == LastJob(item)
    IN  << Text(OrEmpty(item.title)),
           Text(OrEmpty(lastJob.company)),
           Text(OrEmpty(lastJob.position)),
           Text(OrEmpty(item.lastJobDescription)),
           Text(formatDate(lastJob.start) \o <<SPACE, HYPHEN, SPACE>>
                \o formatDate(lastJob.end)),
           Text(OrEmpty(item.status)),
           Text(ResumeUrl \o item.id),
           NumOrEmpty(item.age),
           IF item.salary = <<>>
           THEN Text(<<>>)
           ELSE Text(String(NumOrEmpty(item.salary[1].amount)) \o <<SPACE>>
                     \o OrEmpty(item.salary[1].currency)),
           Text(OrEmpty(item.updated_at)),
           IF item.area = <<>> THEN Text(<<>>) ELSE Text(item.area[1].name),
           IF item.total_experience = <<>> \/ item.total_experience[1].months = 0
           THEN Text(<<>>)
           ELSE Text(Digits(item.total_experience[1].months \div 12)
                     \o <<SPACE>> \o Years \o <<SPACE>>
                     \o Digits(item.total_experience[1].months % 12)
                     \o <<SPACE>> \o Months) >>

\* Line 447: const dataToWrite = [headers, ...rows]
dataToWrite(items) == <<headers>> \o [r \in 1..Len(items) |-> ResumeRow(items[r])]

\* Line 351: `"${String(cell).replace(/"/g, '""')}"`
QuoteCell(cell) == <<DQUOTE>> \o DoubleQuotes(String(cell)) \o <<DQUOTE>>

\* Line 350-351: the cells of [headers, ...rows] as they stand in the text.
ResumeCsvCells(items) ==
    LET rows == dataToWrite(items)
    IN  [r \in 1..Len(rows) |-> [k \in 1..Len(rows[r]) |-> QuoteCell(rows[r][k])]]

\* Lines 314-353 of part_002.
convertToCSV(items) ==
    LET cells == ResumeCsvCells(items)
    IN  Join([r \in 1..Len(cells) |-> Join(cells[r], <<COMMA>>)], <<NEWLINE>>)

\* search-vacancy/route.ts lines 59-64.
escapeCSV(field) ==
    IF Includes(field, COMMA) \/ Includes(field, DQUOTE) \/ Includes(field, NEWLINE)
    THEN <<DQUOTE>> \o DoubleQuotes(field) \o <<DQUOTE>>
    ELSE field

\* search-vacancy/route.ts line 70, each title stood for by one character.
VacancyHeaders ==
    [k \in 1..7 |->
        Text(<<Ch("hdr", <<"ID", "Name", "Employer", "Salary From", "Salary To",
                           "Currency", "URL">>[k], FALSE)>>)]

\* search-vacancy/route.ts lines 71-79.
VacancyRow(item) ==
    << Text(item.id),
       Text(escapeCSV(item.name)),
       Text(escapeCSV(item.employer.name)),
       IF item.salary = <<>> THEN Text(<<>>) ELSE NumOrEmpty(item.salary[1].from),
       IF item.salary = <<>> THEN Text(<<>>) ELSE NumOrEmpty(item.salary[1].to),
       IF item.salary = <<>> THEN Text(<<>>) ELSE Text(OrEmpty(item.salary[1].currency)),
       Text(item.alternate_url) >>

\* search-vacancy/route.ts line 80: the cells of [headers, ...rows] as join
\* puts them into the text.
VacancyCsvCells(items) ==
    LET rows == <<VacancyHeaders>> \o [r \in 1..Len(items) |-> VacancyRow(items[r])]
    IN  [r \in 1..Len(rows) |-> [k \in 1..Len(rows[r]) |-> String(rows[r][k])]]

NoVacanciesFound == <<Ch("msg", "No vacancies found", FALSE)>>

\* search-vacancy/route.ts lines 66-81.
vacancyConvertToCSV(items) ==
    IF items = <<>>
    THEN NoVacanciesFound
    ELSE LET cells == VacancyCsvCells(items)
         IN  Join([r \in 1..Len(cells) |-> Join(cells[r], <<COMMA>>)], <<NEWLINE>>)

(***************************************************************************)
(* The formatters on their own: the items are drawn from the cases below   *)
(* and one formatter is applied.                                           *)
(***************************************************************************)
PlainText == Lat(<<"a">>)
CellTexts ==
    { PlainText,
      <<COMMA>>,
      Lat(<<"a">>) \o <<COMMA, SPACE, DQUOTE>> \o Lat(<<"b">>) \o <<DQUOTE>>,
      Lat(<<"a">>) \o <<NEWLINE>> \o Lat(<<"b">>) }

OptionalFields ==
    {"title", "experience", "salary", "area", "status", "total_experience", "age",
     "updated_at"}

JobStart == [year |-> 2020, month |-> 3, day |-> 15]

\* A resume whose texts are all str and whose optional fields in missing are
\* absent; status and lastJobDescription come from the enrichment together.
ResumeCase(str, missing) ==
    LET opt(name, value) == IF name \in missing THEN <<>> ELSE <<value>>
    IN  [ id |-> Digits(7),
          title |-> opt("title", str),
          experience |-> opt("experience",
                             <<[company |-> <<str>>, position |-> <<str>>,
                                start |-> <<JobStart>>, end |-> <<>>]>>),
          lastJobDescription |-> opt("status", str),
          status |-> opt("status", str),
          age |-> opt("age", 30),
          salary |-> opt("salary", [amount |-> <<1000>>, currency |-> <<str>>]),
          updated_at |-> opt("updated_at", str),
          area |-> opt("area", [name |-> str]),
          total_experience |-> opt("total_experience", [months |-> 14]) ]

ResumeItems == { ResumeCase(str, missing) : str \in CellTexts, missing \in SUBSET OptionalFields }

VacancySalaries ==
    {<<>>} \cup
    { <<[from |-> from, to |-> to, currency |-> currency]>> :
          from \in {<<>>, <<0>>, <<100>>}, to \in {<<>>, <<200>>},
          currency \in {<<>>} \cup { <<str>> : str \in CellTexts } }

VacancyItems ==
    [ id : {Digits(7)}, name : CellTexts, employer : [name : CellTexts],
      salary : VacancySalaries, alternate_url : CellTexts ]

PlainVacancy ==
    [ id |-> Digits(8), name |-> PlainText, employer |-> [name |-> PlainText],
      salary |-> <<>>, alternate_url |-> PlainText ]

\* No item, one item, or one item followed by a plain one.
ItemLists(items, plain) ==
    {<<>>} \cup { <<item>> : item \in items } \cup { <<item, plain>> : item \in items }

FormatCases ==
    { [kind |-> "resume", items |-> items] :
          items \in ItemLists(ResumeItems, ResumeCase(PlainText, {})) }
    \cup
    { [kind |-> "vacancy", items |-> items] :
          items \in ItemLists(VacancyItems, PlainVacancy) }

FormatInit ==
    /\ pc = "format"
    /\ input \in FormatCases
    /\ output = <<>>
    /\ dashboard = NothingShown
    /\ companyIds = <<>>
    /\ idPos = 1
    /\ retryCount = 0
    /\ now = 0
    /\ yearLen = 365
    /\ request = [text |-> <<>>, totalLimit |-> DEFAULT_TOTAL_LIMIT, mode |-> "full",
                  accessToken |-> FALSE, sheetUrl |-> "missing", sheet |-> <<>>]
    /\ getStart = 0
    /\ companies = <<>>
    /\ startTime = 0
    /\ ci = 1
    /\ cleanName = <<>>
    /\ page = 0
    /\ companyItems = <<>>
    /\ allItems = <<>>
    /\ enrichedItems = <<>>
    /\ batchStart = 0
    /\ batchPos = 1
    /\ retries = MAX_RETRIES
    /\ inflight = NoCall
    /\ attempts = 0
    /\ answer = NoAnswer
    /\ waited = 0
    /\ details = NotReturned
    /\ stopped = {}
    /\ errorLogged = "none"
    /\ sheetRows = NotWritten
    /\ response = NoResponse

\* convertToCSV(items) of the resume route.
ResumesToCSV ==
    /\ pc = "format"
    /\ input.kind = "resume"
    /\ output' = [kind |-> "csv", rows |-> ResumeCsvCells(input.items),
                  text |-> convertToCSV(input.items)]
    /\ pc' = "formatted"
    /\ UNCHANGED << now, yearLen, request, getStart, companies, startTime, ci, cleanName,
                    page, companyItems, allItems, enrichedItems, batchStart, batchPos,
                    retries, inflight, attempts, answer, waited, details, stopped,
                    errorLogged, sheetRows, response, input, dashboard, vacVars, oauthVars >>

\* The values writeResumesToSheet hands to the sheet.
ResumesToSheet ==
    /\ pc = "format"
    /\ input.kind = "resume"
    /\ output' = [kind |-> "sheet", rows |-> dataToWrite(input.items)]
    /\ pc' = "formatted"
    /\ UNCHANGED << now, yearLen, request, getStart, companies, startTime, ci, cleanName,
                    page, companyItems, allItems, enrichedItems, batchStart, batchPos,
                    retries, inflight, attempts, answer, waited, details, stopped,
                    errorLogged, sheetRows, response, input, dashboard, vacVars, oauthVars >>

\* convertToCSV(items) of the vacancy route.
VacanciesToCSV ==
    /\ pc = "format"
    /\ input.kind = "vacancy"
    /\ output' = [kind |-> "csv",
                  rows |-> IF input.items = <<>> THEN <<>> ELSE VacancyCsvCells(input.items),
                  text |-> vacancyConvertToCSV(input.items)]
    /\ pc' = "formatted"
    /\ UNCHANGED << now, yearLen, request, getStart, companies, startTime, ci, cleanName,
                    page, companyItems, allItems, enrichedItems, batchStart, batchPos,
                    retries, inflight, attempts, answer, waited, details, stopped,
                    errorLogged, sheetRows, response, input, dashboard, vacVars, oauthVars >>

FormatNext == ResumesToCSV \/ ResumesToSheet \/ VacanciesToCSV

FormatSpec == FormatInit /\ [][FormatNext]_vars

(***************************************************************************)
(* The vacancy route, search-vacancy/route.ts: GET, fetchCompanyIds and    *)
(* fetchVacancies.  The route's allItems, companies, companyItems, page,   *)
(* request and response are the variables of the same names; ci is the     *)
(* place of the outer loop.  The route has no clock.                       *)
(***************************************************************************)
DEFAULT_LIMIT_PER_COMPANY == 3

\* The employer directory of the platform: the ids that the employer search
\* returns for a name.
EmployerIds(name) ==
    IF name = "acme" THEN <<1, 2>>
    ELSE IF name = "beta" THEN <<3>>
    ELSE <<>>

\* The k-th open vacancy of an employer.
Vacancy(employer, k) ==
    [ id |-> Digits(100 * employer + k), name |-> PlainText,
      employer |-> [id |-> employer, name |-> PlainText],
      salary |-> <<>>, alternate_url |-> PlainText ]

\* The open vacancies of the employers: two at the employers 1 and 2, more
\* than a preview holds at employer 3.  They fit on the first page of 100.
VacanciesOf(employer) ==
    [k \in 1..(IF employer = 3 THEN PREVIEW_LIMIT + 2 ELSE 2) |-> Vacancy(employer, k)]

VacancyPage(employer, pageNo) == IF pageNo = 0 THEN VacanciesOf(employer) ELSE <<>>

\* What a request to the platform may come to: a body with items, a body
\* without items, or a throw (fetch rejects, the body is not JSON).
VacancyOutcomes == {"ok", "no_items", "throws"}

EmployerCall(name) == [kind |-> "employers", text |-> name]
VacancyCall(employer, text, pageNo) ==
    [kind |-> "vacancies", employer |-> employer, text |-> text, page |-> pageNo]
VacancyAnswer(outcome) == [kind |-> "vacancy", outcome |-> outcome]
CsvResponse(items, text) == [kind |-> "csv", status |-> 200, items |-> items, text |-> text]
VacancyErrorResponse ==
    [kind |-> "error", status |-> 500, error |-> "Failed to fetch data from HH API"]

VacancyRequests ==
    [ text : {<<>>, TextHr},
      companies : {<<>>, <<"acme">>, <<"acme", "beta">>, <<"beta", "acme">>},
      totalLimit : (1..MaxLimit) \cup {DEFAULT_TOTAL_LIMIT},
      limitPerCompany : (1..MaxLimit) \cup {DEFAULT_LIMIT_PER_COMPANY, PREVIEW_LIMIT + 2},
      mode : {"full", "preview"},
      preview : BOOLEAN ]

VacancyInit ==
    /\ pc = "vacancy_get"
    /\ request \in VacancyRequests
    /\ now = 0
    /\ yearLen = 365
    /\ getStart = 0
    /\ companies = <<>>
    /\ startTime = 0
    /\ ci = 1
    /\ cleanName = <<>>
    /\ page = 0
    /\ companyItems = <<>>
    /\ allItems = <<>>
    /\ enrichedItems = <<>>
    /\ batchStart = 0
    /\ batchPos = 1
    /\ retries = MAX_RETRIES
    /\ inflight = NoCall
    /\ attempts = 0
    /\ answer = NoAnswer
    /\ waited = 0
    /\ details = NotReturned
    /\ stopped = {}
    /\ errorLogged = "none"
    /\ sheetRows = NotWritten
    /\ response = NoResponse
    /\ input = <<>>
    /\ output = <<>>
    /\ dashboard = NothingShown
    /\ companyIds = <<>>
    /\ idPos = 1
    /\ retryCount = 0

\* What no step of the vacancy route touches.
VacancyUnused ==
    << now, yearLen, getStart, startTime, cleanName, enrichedItems, batchStart, batchPos,
       retries, attempts, waited, details, stopped, sheetRows, fnVars, dashboard,
       oauthVars >>

\* Lines 146-154: the catch of GET.
VacancyCatch ==
    /\ response' = VacancyErrorResponse
    /\ errorLogged' = "request"
    /\ pc' = "done"

\* Lines 97-108: the parameters are read.
VacancyGet ==
    /\ pc = "vacancy_get"
    /\ companies' = request.companies
    /\ allItems' = <<>>
    /\ ci' = 1
    /\ pc' = "company"
    /\ UNCHANGED << request, page, companyItems, inflight, answer, errorLogged, response,
                    vacVars, VacancyUnused >>

\* Lines 110-111 and 33-40: the next company; fetchCompanyIds asks the
\* employer search for it.
VacancyCompanyLoop ==
    /\ pc = "company"
    /\ IF ci > Len(companies)
       THEN pc' = "after" /\ UNCHANGED inflight
       ELSE inflight' = EmployerCall(companies[ci]) /\ pc' = "ids_wait"
    /\ answer' = NoAnswer
    /\ UNCHANGED << request, companies, ci, page, companyItems, allItems, errorLogged,
                    response, vacVars, VacancyUnused >>

\* Lines 41-49 and 112: the employer search has answered.
CompanyIdsResponse ==
    /\ pc = "ids_wait"
    /\ \E outcome \in VacancyOutcomes :
          /\ answer' = VacancyAnswer(outcome)
          /\ IF outcome = "throws"
             THEN VacancyCatch /\ UNCHANGED vacVars
             ELSE /\ companyIds' = IF outcome = "ok" THEN EmployerIds(inflight.text) ELSE <<>>
                  /\ idPos' = 1
                  /\ pc' = "id_loop"
                  /\ UNCHANGED << errorLogged, response >>
    /\ inflight' = NoCall
    /\ UNCHANGED << request, companies, ci, page, companyItems, allItems, VacancyUnused >>

\* Lines 112-117 and 123: the next employer id of the company; fetchVacancies
\* starts for it (lines 5-6).
CompanyIdLoop ==
    /\ pc = "id_loop"
    /\ IF Len(allItems) >= request.totalLimit
       THEN pc' = "after" /\ UNCHANGED << ci, page, companyItems >>
       ELSE IF idPos > Len(companyIds)
       THEN ci' = ci + 1 /\ pc' = "company" /\ UNCHANGED << page, companyItems >>
       ELSE /\ companyItems' = <<>>
            /\ page' = 0
            /\ pc' = "page"
            /\ UNCHANGED ci
    /\ answer' = NoAnswer
    /\ UNCHANGED << request, companies, allItems, inflight, errorLogged, response,
                    vacVars, VacancyUnused >>

\* Lines 29 and 117-121: fetchVacancies returns its items cut to the limit;
\* they join allItems and the inner loop goes on (or breaks, see
\* CompanyIdLoop).
EndFetchVacancies(items) ==
    /\ allItems' = allItems \o SliceTo(items, request.limitPerCompany)
    /\ idPos' = idPos + 1
    /\ pc' = "id_loop"
    /\ UNCHANGED companyIds

\* Lines 8-16: the head of the loop of fetchVacancies.
VacancyPageLoop ==
    /\ pc = "page"
    /\ IF Len(companyItems) < request.limitPerCompany
       THEN /\ inflight' = VacancyCall(companyIds[idPos], request.text, page)
            /\ pc' = "page_answer"
            /\ UNCHANGED << allItems, vacVars >>
       ELSE EndFetchVacancies(companyItems) /\ UNCHANGED inflight
    /\ answer' = NoAnswer
    /\ UNCHANGED << request, companies, ci, page, companyItems, errorLogged, response,
                    VacancyUnused >>

\* Lines 17-26: the page has been answered.
VacancyPageResponse ==
    /\ pc = "page_answer"
    /\ \E outcome \in VacancyOutcomes :
          LET items == IF outcome = "ok"
                       THEN VacancyPage(inflight.employer, inflight.page)
                       ELSE <<>>
          IN  /\ answer' = VacancyAnswer(outcome)
              /\ IF outcome = "throws"
                 THEN VacancyCatch /\ UNCHANGED << page, companyItems, allItems, vacVars >>
                 ELSE IF items # <<>>
                 THEN /\ companyItems' = companyItems \o items
                      /\ page' = page + 1
                      /\ pc' = "page"
                      /\ UNCHANGED << allItems, vacVars, errorLogged, response >>
                 ELSE /\ EndFetchVacancies(companyItems)
                      /\ UNCHANGED << page, companyItems, errorLogged, response >>
    /\ inflight' = NoCall
    /\ UNCHANGED << request, companies, ci, VacancyUnused >>

\* Lines 126-143: the result is cut and answered as JSON or as a CSV file.
VacancyAfter ==
    LET isPreview == request.preview
        previewLimit == IF isPreview THEN PREVIEW_LIMIT ELSE request.totalLimit
        limited == SliceTo(allItems, previewLimit)
    IN  /\ pc = "after"
        /\ allItems' = limited
        /\ response' = IF request.mode = "preview"
                       THEN PreviewResponse(limited)
                       ELSE CsvResponse(limited, vacancyConvertToCSV(limited))
        /\ pc' = "done"
        /\ answer' = NoAnswer
        /\ UNCHANGED << request, companies, ci, page, companyItems, inflight, errorLogged,
                        vacVars, VacancyUnused >>

VacancyNext ==
    \/ VacancyGet
    \/ VacancyCompanyLoop
    \/ CompanyIdsResponse
    \/ CompanyIdLoop
    \/ VacancyPageLoop
    \/ VacancyPageResponse
    \/ VacancyAfter

VacancySpec == VacancyInit /\ [][VacancyNext]_vars

(***************************************************************************)
(* The OAuth callback: GET and getAccessToken.  attempts counts the         *)
(* requests made to the token endpoint, waited is the last sleep, and the   *)
(* response is the redirect with the cookies it sets.                       *)
(***************************************************************************)
TOKEN_MAX_RETRIES == 1
RETRY_DELAY == 2000
TOKEN_TIMEOUT_MS == 5000

\* The callbacks: with or without a code, on a server with or without its
\* CLIENT_ID, CLIENT_SECRET and REDIRECT_URI.
Callbacks == [ code : {<<>>, <<"fresh">>, <<"used">>}, configured : BOOLEAN ]

\* How a request to the token endpoint may end: a body with the tokens, a
\* body that is not JSON, an HTTP error status, or no response at all.
TokenOutcomes == {"ok", "not_json", "http", "network"}
HttpErrors == {400, 401, 403, 429, 500}
TokenDurations == {0, 1000, RETRY_DELAY, TOKEN_TIMEOUT_MS}

TokenCall(code) == [kind |-> "token", code |-> code]
TokenAnswer(outcome, status, at) ==
    [kind |-> "token", outcome |-> outcome, status |-> status, at |-> at]
Redirect(error, cookies) ==
    [kind |-> "redirect", to |-> "/", error |-> error, cookies |-> cookies]

OAuthInit ==
    /\ pc = "oauth_get"
    /\ request \in Callbacks
    /\ now = 0
    /\ yearLen = 365
    /\ getStart = 0
    /\ companies = <<>>
    /\ startTime = 0
    /\ ci = 1
    /\ cleanName = <<>>
    /\ page = 0
    /\ companyItems = <<>>
    /\ allItems = <<>>
    /\ enrichedItems = <<>>
    /\ batchStart = 0
    /\ batchPos = 1
    /\ retries = MAX_RETRIES
    /\ inflight = NoCall
    /\ attempts = 0
    /\ answer = NoAnswer
    /\ waited = 0
    /\ details = NotReturned
    /\ stopped = {}
    /\ errorLogged = "none"
    /\ sheetRows = NotWritten
    /\ response = NoResponse
    /\ input = <<>>
    /\ output = <<>>
    /\ dashboard = NothingShown
    /\ companyIds = <<>>
    /\ idPos = 1
    /\ retryCount = 0

\* What no step of the OAuth callback touches.
OAuthUnused ==
    << yearLen, getStart, companies, startTime, ci, cleanName, page, companyItems, allItems,
       enrichedItems, batchStart, batchPos, retries, details, stopped, sheetRows, fnVars,
       dashboard, vacVars >>

\* Lines 97-101: the catch of GET.
TokenFailed ==
    /\ response' = Redirect("Failed to get access token", {})
    /\ errorLogged' = "token"
    /\ pc' = "done"

\* Lines 69-79: the code is read; without one the callback redirects at once.
OAuthGet ==
    /\ pc = "oauth_get"
    /\ IF request.code = <<>>
       THEN /\ response' = Redirect("no_code", {})
            /\ errorLogged' = "no_code"
            /\ pc' = "done"
       ELSE /\ pc' = "token"
            /\ UNCHANGED << response, errorLogged >>
    /\ UNCHANGED << now, request, inflight, attempts, answer, waited, oauthVars, OAuthUnused >>

\* Lines 17-42: getAccessToken is entered; it throws without the settings
\* of the server and posts to the token endpoint otherwise.
GetAccessToken ==
    /\ pc = "token"
    /\ IF ~request.configured
       THEN TokenFailed /\ UNCHANGED << inflight, attempts >>
       ELSE /\ inflight' = TokenCall(request.code)
            /\ attempts' = attempts + 1
            /\ pc' = "token_wait"
            /\ UNCHANGED << response, errorLogged >>
    /\ UNCHANGED << now, request, answer, waited, oauthVars, OAuthUnused >>

\* Mutant of MayRetry: every HTTP error is retried.
MayRetryAnyStatus(outcome, status) == outcome = "http" /\ retryCount < TOKEN_MAX_RETRIES

\* Line 52: the test for a retry.
MayRetry(outcome, status) ==
    outcome = "http" /\ status = 403 /\ retryCount < TOKEN_MAX_RETRIES

\* Lines 44-66 and 79-102: the token endpoint has answered, or the request
\* has failed.
TokenResponse ==
    /\ pc = "token_wait"
    /\ \E outcome \in TokenOutcomes, duration \in TokenDurations :
       \E status \in (IF outcome = "http" THEN HttpErrors ELSE {200}) :
          /\ now' = now + duration
          /\ answer' = TokenAnswer(outcome, status, now + duration)
          /\ IF outcome = "ok"
             THEN /\ response' = Redirect("none", {"hh_access_token", "hh_refresh_token"})
                  /\ pc' = "done"
                  /\ UNCHANGED errorLogged
             ELSE IF MayRetry(outcome, status)
             THEN /\ pc' = "sleep"
                  /\ errorLogged' = "http"
                  /\ UNCHANGED response
             ELSE TokenFailed
    /\ inflight' = NoCall
    /\ UNCHANGED << request, attempts, waited, oauthVars, OAuthUnused >>

\* Lines 53-55: sleep(RETRY_DELAY), then getAccessToken(code, retryCount + 1).
TokenRetry ==
    /\ pc = "sleep"
    /\ now' = now + RETRY_DELAY
    /\ waited' = RETRY_DELAY
    /\ retryCount' = retryCount + 1
    /\ pc' = "token"
    /\ UNCHANGED << request, inflight, attempts, answer, errorLogged, response, OAuthUnused >>

OAuthNext ==
    \/ OAuthGet
    \/ GetAccessToken
    \/ TokenResponse
    \/ TokenRetry

OAuthSpec == OAuthInit /\ [][OAuthNext]_vars

(***************************************************************************)
(* cleanCompanyName on its own: applied to a vocabulary word followed by a *)
(* quoted name and to the bare name, and applied twice to a string         *)
(***************************************************************************)
\* The same string in upper case.
toUpperCase(str) ==
    [k \in 1..Len(str) |-> [str[k] EXCEPT !.u = (str[k].s \in {"cyr", "lat"})]]

\* The words of removeWords in lower case, capitalised and in upper case.
FillerWords ==
    UNION { { removeWords[k], Cap(removeWords[k]), toUpperCase(removeWords[k]) } :
            k \in 1..Len(removeWords) }

\* The names that follow a vocabulary word: two Cyrillic ones and "Acme".
FillerNames == { NameRomashka, NameAkme, Cap(Lat(<<"a", "c", "m", "e">>)) }

\* w + ' "' + n + '"'
WithFiller(w, n) == w \o <<SPACE, DQUOTE>> \o n \o <<DQUOTE>>

\* The characters of the strings cleaned twice: the letters of the vocabulary
\* words 'ooo' and 'ao' (Cyrillic), one of them in upper case too, an ASCII
\* letter, the space and the double quote.
Alphabet ==
    { Ch("cyr", "o", FALSE), Ch("cyr", "o", TRUE), Ch("cyr", "a", FALSE),
      Ch("lat", "x", FALSE), SPACE, DQUOTE }

\* The strings over Alphabet of length at most n.
Strings(n) == UNION { [1..k -> Alphabet] : k \in 0..n }

FillerCases == { [kind |-> "filler", word |-> w, name |-> n] : w \in FillerWords, n \in FillerNames }
StringCases == { [kind |-> "string", str |-> str] : str \in Strings(MaxNameLen) }

\* No request is being handled.
CleanInit ==
    /\ pc = "clean"
    /\ input \in FillerCases \cup StringCases
    /\ output = <<>>
    /\ dashboard = NothingShown
    /\ companyIds = <<>>
    /\ idPos = 1
    /\ retryCount = 0
    /\ now = 0
    /\ yearLen = 365
    /\ request = [text |-> <<>>, totalLimit |-> DEFAULT_TOTAL_LIMIT, mode |-> "full",
                  accessToken |-> FALSE, sheetUrl |-> "missing", sheet |-> <<>>]
    /\ getStart = 0
    /\ companies = <<>>
    /\ startTime = 0
    /\ ci = 1
    /\ cleanName = <<>>
    /\ page = 0
    /\ companyItems = <<>>
    /\ allItems = <<>>
    /\ enrichedItems = <<>>
    /\ batchStart = 0
    /\ batchPos = 1
    /\ retries = MAX_RETRIES
    /\ inflight = NoCall
    /\ attempts = 0
    /\ answer = NoAnswer
    /\ waited = 0
    /\ details = NotReturned
    /\ stopped = {}
    /\ errorLogged = "none"
    /\ sheetRows = NotWritten
    /\ response = NoResponse

\* cleanCompanyName(w + ' "' + n + '"') and cleanCompanyName(n).
CleanWithFiller ==
    /\ pc = "clean"
    /\ input.kind = "filler"
    /\ output' = [filled |-> cleanCompanyName(WithFiller(input.word, input.name)),
                  bare |-> cleanCompanyName(input.name)]
    /\ pc' = "cleaned"
    /\ UNCHANGED << now, yearLen, request, getStart, companies, startTime, ci, cleanName,
                    page, companyItems, allItems, enrichedItems, batchStart, batchPos,
                    retries, inflight, attempts, answer, waited, details, stopped,
                    errorLogged, sheetRows, response, input, dashboard, vacVars, oauthVars >>

\* cleanCompanyName(s).
CleanOnce ==
    /\ pc = "clean"
    /\ input.kind = "string"
    /\ output' = [once |-> cleanCompanyName(input.str)]
    /\ pc' = "cleaned"
    /\ UNCHANGED << now, yearLen, request, getStart, companies, startTime, ci, cleanName,
                    page, companyItems, allItems, enrichedItems, batchStart, batchPos,
                    retries, inflight, attempts, answer, waited, details, stopped,
                    errorLogged, sheetRows, response, input, dashboard, vacVars, oauthVars >>

\* cleanCompanyName of what cleanCompanyName(s) returned.
CleanAgain ==
    /\ pc = "cleaned"
    /\ input.kind = "string"
    /\ output' = [once |-> output.once, twice |-> cleanCompanyName(output.once)]
    /\ pc' = "cleaned_twice"
    /\ UNCHANGED << now, yearLen, request, getStart, companies, startTime, ci, cleanName,
                    page, companyItems, allItems, enrichedItems, batchStart, batchPos,
                    retries, inflight, attempts, answer, waited, details, stopped,
                    errorLogged, sheetRows, response, input, dashboard, vacVars, oauthVars >>

CleanNext == CleanWithFiller \/ CleanOnce \/ CleanAgain

CleanSpec == CleanInit /\ [][CleanNext]_vars

(***************************************************************************)
(* Properties                                                              *)
(***************************************************************************)
\* The ids of a list of items, in order.
Ids(items) == [k \in 1..Len(items) |-> items[k].id]

\* fetchResumes has returned to GET.
Returned == pc \in {"return", "sheet_write", "done"}

\* seq ends with tail.
IsSuffix(tail, seq) ==
    /\ Len(tail) <= Len(seq)
    /\ SubSeq(seq, Len(seq) - Len(tail) + 1, Len(seq)) = tail

\* C1: the list fetchResumes returns, the items of a preview response, the
\* rows written to the sheet and the count a status response reports never
\* exceed totalLimit.
C1_CapInvariant ==
    /\ Len(enrichedItems) <= request.totalLimit
    /\ response.kind = "preview" => Len(response.items) <= request.totalLimit
    /\ response.kind = "status" => response.count <= request.totalLimit
    /\ sheetRows.written => Len(sheetRows.rows) <= request.totalLimit

\* C1 witness: a run that matched more items for one company than totalLimit
\* allows and answered with exactly totalLimit of them.
C1_Witness ==
    /\ pc = "done"
    /\ request.totalLimit > 0
    /\ Len(companyItems) > request.totalLimit
    /\ response.kind = "preview"
    /\ Len(response.items) = request.totalLimit

\* C2: the enrichment phase returns the ids of the truncated candidate list it
\* started from, in the same sequence.
C2_EnrichmentKeepsItems == Returned => Ids(enrichedItems) = Ids(allItems)

\* C3: a run whose company loop or pagination loop was stopped by the time
\* limit after items had matched delivers them: in the preview they are the
\* response, in full mode they are written to the sheet.
C3_PartialDelivered ==
    (/\ pc = "done"
     /\ stopped \cap {"company", "page"} # {}
     /\ allItems # <<>>
     /\ response.kind # "error")
    => IF IsPreview
       THEN /\ response.kind = "preview"
            /\ Ids(response.items) = Ids(SliceTo(allItems, PREVIEW_LIMIT))
       ELSE /\ sheetRows.written
            /\ Ids(sheetRows.rows) = Ids(allItems)

\* C4: a call to the recruiting platform is in flight only if it was started
\* while the time limit was not exceeded (the clock moves when a call ends, so
\* while a call is in flight now is the time it was started).
C4_NoCallAfterDeadline == inflight.kind # "none" => ~TimeExceeded(startTime)

\* C5: every response that is not an error says whether the run was cut short:
\* if a loop stopped on its time limit the response is a status response that
\* reports the timeout.
C5_StatusIndicator ==
    (pc = "done" /\ response.kind # "error" /\ stopped # {})
    => (response.kind = "status" /\ ~response.success)

\* An item matches an input company through an entry that is recent at clock
\* reading t.
MatchesSomeCompany(item, t) ==
    \E c \in 1..Len(companies) :
        \E k \in 1..Len(ResumeExperience(item.id)) :
            LET exp == ResumeExperience(item.id)[k]
            IN  /\ CleanedName[exp.company] = CleanedName[companies[c]]
                /\ isRecentOrCurrentExperience(exp, t, yearLen)

\* C6: every item of the accumulators (companyItems, allItems) and of the
\* returned list has an employment entry whose cleaned company equals the
\* cleaned name of an input company and which is recent or current at some
\* moment of the run (the rule only gets stricter as the clock advances, so
\* that is: at the start of the run).
C6_ItemsMatch ==
    \A items \in {companyItems, allItems, enrichedItems} :
        \A k \in 1..Len(items) : MatchesSomeCompany(items[k], startTime)

\* C6 witness: a returned list that holds resume 3, whose matching entry is
\* not its first, after a page that also held a resume that does not match.
C6_Witness ==
    /\ pc = "done"
    /\ \E k \in 1..Len(enrichedItems) : enrichedItems[k].id = 3

\* C7: no two items of the returned list have the same resume id.
C7_Deduplicated ==
    Returned =>
        \A j, k \in 1..Len(enrichedItems) :
            enrichedItems[j].id = enrichedItems[k].id => j = k

\* C8: when the request for a page k >= 1 fails, the run goes on with the next
\* company, no response is given, and the items matched on the pages before
\* are the end of the accumulator.
C8_PageFailureKeepsItems ==
    (errorLogged = "page" /\ page >= 1)
    => /\ pc = "company_loop"
       /\ response = NoResponse
       /\ IsSuffix(companyItems, allItems)

\* C8 witness: page 1 failed after page 0 had matched an item.
C8_Witness == errorLogged = "page" /\ page >= 1 /\ companyItems # <<>>

\* The causes of a 500 response.
SetupAndWriteErrors ==
    { "Access token and Google Sheet URL are required",
      "Invalid Google Sheet URL",
      "Failed to fetch companies from Google Sheet",
      "Sheet write failed" }

\* C9: a failed page request leaves the run at the next company and a failed
\* detail call leaves it at the next item with the item kept, neither with a
\* response; a 500 response is given only for a setup failure or a failed
\* sheet write.
C9_FailuresDoNotAbort ==
    /\ errorLogged = "page" => pc = "company_loop" /\ response = NoResponse
    /\ errorLogged = "detail" =>
          /\ pc \in {"detail_send", "batch_loop"}
          /\ response = NoResponse
          /\ enrichedItems # <<>>
          /\ ~enrichedItems[Len(enrichedItems)].enriched
    /\ response.kind = "error" => response.error \in SetupAndWriteErrors
    /\ (response.kind = "error" /\ response.error # "Sheet write failed") => allItems = <<>>

\* C9 witness: the detail call of the first of two items failed for good and
\* the second item is next.
C9_Witness ==
    /\ errorLogged = "detail"
    /\ pc = "detail_send"
    /\ Len(allItems) > Len(enrichedItems)

\* C10: with a query text, the text of every search request contains it.
C10_QueryTextSent ==
    (inflight.kind = "search" /\ request.text # <<>>)
    => Contains(inflight.text, request.text)

\* C11: cleanCompanyName of a vocabulary word (in any letter case) followed by
\* a space and the quoted name equals cleanCompanyName of the bare name.
C11_FillerInsensitive ==
    (pc = "cleaned" /\ input.kind = "filler") => output.filled = output.bare

\* C12: cleaning a cleaned string changes nothing:
\* cleanCompanyName(cleanCompanyName(s)) = cleanCompanyName(s).
C12_Idempotent == pc = "cleaned_twice" => output.twice = output.once

\* C12 witness: a string with an upper-case letter and the word 'ooo' between
\* ASCII letters was cleaned twice; the word is gone and letters are left.
C12_Witness ==
    /\ pc = "cleaned_twice"
    /\ input.str # toLowerCase(input.str)
    /\ Contains(toLowerCase(input.str), Cyr(<<"o", "o", "o">>))
    /\ ~Contains(output.twice, Cyr(<<"o", "o", "o">>))
    /\ output.twice # <<>>

\* The recency rule as stated: no end date, or an end date not earlier than
\* 365 days before the clock reading start.
EndsWithin365Days(exp, start) ==
    \/ ~exp.hasEnd
    \/ exp.end + 365 >= (start + DAY_MS - 1) \div DAY_MS

\* C13: the items kept from a page are those with an entry of the company that
\* has no end date or ends not earlier than 365 days before the start of the
\* run, whenever the page is filtered (stated for the company's first page,
\* after which companyItems holds exactly the items kept from it).
C13_RecencyFromRunStart ==
    (pc = "page_loop" /\ page = 1 /\ answer.kind = "page" /\ answer.outcome = "ok")
    => Ids(companyItems) =
           SelectSeq(answer.items,
                     LAMBDA id : \E k \in 1..Len(ResumeExperience(id)) :
                         /\ CleanedName[ResumeExperience(id)[k].company] = cleanName
                         /\ EndsWithin365Days(ResumeExperience(id)[k], startTime))

\* C14: an item gets at most MAX_RETRIES + 1 = 3 detail requests, whatever the
\* upstream answers; the answer to the third, like an OK answer to any, makes
\* fetchResumeDetails return (the details or null) to the enrichment loop,
\* which goes on without an error response.
C14_AtMostThreeRequests ==
    /\ attempts <= MAX_RETRIES + 1
    /\ inflight.kind = "detail" => attempts \in 1..(MAX_RETRIES + 1)
    /\ (answer.kind = "details" /\ (answer.outcome = "ok" \/ attempts = MAX_RETRIES + 1))
       => /\ details \in {DetailsObject, Null}
          /\ pc \in {"detail_send", "batch_loop"}
          /\ response = NoResponse

\* C14 witness: the third request for an item was answered 429 and
\* fetchResumeDetails returned null.
C14_Witness ==
    /\ answer.kind = "details"
    /\ answer.outcome = "rate_limited"
    /\ attempts = MAX_RETRIES + 1
    /\ details = Null

\* C15: a detail response with a status that is neither OK nor 429 ends the
\* item's detail call: fetchResumeDetails returns null at once, no further
\* request is sent for the item, and the item is pushed without details.
C15_OtherStatusNotRetried ==
    (answer.kind = "details" /\ answer.outcome = "http_error")
    => /\ details = Null
       /\ enrichedItems # <<>>
       /\ ~enrichedItems[Len(enrichedItems)].enriched

\* C16: a page is given up, and the company's collection stopped, on 429, a
\* network error or a timeout only after MAX_RETRIES + 1 = 3 requests for
\* that page.
C16_PageRetried ==
    (/\ answer.kind = "page"
     /\ answer.outcome \in {"rate_limited", "network_error", "timeout"}
     /\ errorLogged = "page"
     /\ pc = "company_loop")
    => attempts = MAX_RETRIES + 1

\* The three kinds of failure a caller is to tell apart.
FailureKind(outcome) ==
    CASE outcome = "rate_limited" -> "rate_limited"
      [] outcome \in {"network_error", "timeout"} -> "network"
      [] OTHER -> "http_error"

\* C17: what fetchResumeDetails returns once its last request has failed names
\* the kind of the failure: rate limited, network/timeout, or another HTTP
\* error.
C17_TypedFailure ==
    (answer.kind = "details" /\ answer.outcome # "ok" /\ details # NotReturned)
    => details.kind = FailureKind(answer.outcome)

\* C18: when fetchResumeDetails is about to send the k-th retry of an item
\* (k requests were sent for it so far), the step before answered the k-th
\* request with a failure, 429 or thrown, and waited exactly k * 1000 ms.
C18_LinearBackoff ==
    (pc = "detail_send" /\ retries < MAX_RETRIES)
    => /\ attempts \in 1..MAX_RETRIES
       /\ answer.kind = "details"
       /\ answer.outcome # "ok"
       /\ waited = attempts * 1000

\* C18 witness: the second retry of an item is about to be sent after an
\* aborted request and a wait of 2000 ms.
C18_Witness ==
    /\ pc = "detail_send"
    /\ attempts = 2
    /\ answer.kind = "details"
    /\ answer.outcome = "timeout"
    /\ waited = 2000

\* C19: no attempt through fetchWithTimeout lasts longer than TIMEOUT_MS, and
\* one that lasts that long was aborted: its outcome is the timeout.
C19_HardTimeout ==
    answer.kind \in {"page", "details"}
    => /\ answer.duration <= TIMEOUT_MS
       /\ answer.duration = TIMEOUT_MS => answer.outcome = "timeout"

\* C21: a request without a query text, or over a sheet that holds only its
\* header row, sends no request to the recruiting platform, writes nothing to
\* the output sheet and is answered with an error.
C21_InvalidInputFailsFirst ==
    (request.text = <<>> \/ Len(request.sheet) = 1)
    => /\ inflight = NoCall
       /\ ~sheetRows.written
       /\ pc = "done" => response.kind = "error"

\* seq starts with head.
IsPrefix(head, seq) ==
    /\ Len(head) <= Len(seq)
    /\ SubSeq(seq, 1, Len(head)) = head

\* The elements of sub occur in seq in the same order.
RECURSIVE IsSubsequence(_, _)
IsSubsequence(sub, seq) ==
    IF sub = <<>> THEN TRUE
    ELSE IF seq = <<>> THEN FALSE
    ELSE IF Head(sub) = Head(seq) THEN IsSubsequence(Tail(sub), Tail(seq))
    ELSE IsSubsequence(sub, Tail(seq))

\* What one step may do to the lists of the run: a page adds to the end of
\* companyItems some of its items in the upstream's order; a company's items
\* are added to the end of allItems; the cut to the limit keeps a prefix of
\* allItems; the enrichment adds to the end of enrichedItems the next item of
\* allItems.
OrderKeptByStep ==
    /\ companyItems' # companyItems =>
          \/ companyItems' = <<>> /\ pc' = "page_loop"
          \/ /\ answer'.kind = "page"
             /\ answer'.outcome = "ok"
             /\ IsPrefix(companyItems, companyItems')
             /\ IsSubsequence(Ids(SubSeq(companyItems', Len(companyItems) + 1,
                                         Len(companyItems'))),
                              answer'.items)
    /\ allItems' # allItems =>
          \/ pc' = "company_loop" /\ allItems' = allItems \o companyItems'
          \/ pc' = "batch_loop" /\ IsPrefix(allItems', allItems)
    /\ enrichedItems' # enrichedItems =>
          /\ enrichedItems' = Append(enrichedItems, enrichedItems'[Len(enrichedItems')])
          /\ Len(enrichedItems') <= Len(allItems)
          /\ enrichedItems'[Len(enrichedItems')].id = allItems[Len(enrichedItems')].id

\* C22: the lists of the run only grow at their end, in the order company,
\* then page, then position within the page, and the list fetchResumes returns
\* is, id by id, a prefix of the list of candidates.
C22_FirstSeenOrder ==
    /\ [](IsPrefix(Ids(enrichedItems), Ids(allItems)))
    /\ [][OrderKeptByStep]_vars

\* C22 witness: the returned list holds an item of the first company and then
\* an item of the second, the first of the two that page held.
C22_Witness ==
    /\ pc = "done"
    /\ request.sheet = MainSheet
    /\ Ids(enrichedItems) = <<1, 3>>

\* C23: a call to the recruiting platform is started only while none is in
\* flight: each step that puts a call in flight starts from a state without
\* one, the call before having been answered, failed or aborted.
C23_OneCallInFlight ==
    [][(inflight' # NoCall /\ inflight' # inflight) => inflight = NoCall]_vars

\* C23 witness: the second request for the second item is in flight; the
\* first item's call and the second item's first request are over.
C23_Witness ==
    /\ inflight.kind = "detail"
    /\ Len(enrichedItems) = 1
    /\ attempts = 2

\* C24: when the pagination loop of a company has ended, the company's items
\* are at most MAX_RESULTS_PER_COMPANY.
C24_PerCompanyCap ==
    (pc = "company_loop" /\ ci > 1) => Len(companyItems) <= MAX_RESULTS_PER_COMPANY

\* A step that sends a page request: none was in flight and one is now.
SendsPage == inflight = NoCall /\ inflight'.kind = "search"

\* What one step may do to the page number and which page it may request.  In
\* the state a request is sent from, answer is the page that has just arrived
\* for the company, or NoAnswer when the company has just been started.
PagesInOrderStep ==
    /\ page' # page =>
          \/ page' = 0 /\ pc = "company_loop"
          \/ page' = page + 1 /\ answer'.kind = "page" /\ answer'.outcome = "ok"
    /\ SendsPage =>
          /\ inflight'.page = page
          /\ answer.kind = "none" => page = 0
          /\ answer.kind = "page" => page > 0

\* C25: for one company the pages are requested as 0, 1, 2, ... without gaps,
\* and no page is requested once the pages fetched so far (page of them, at
\* ITEMS_PER_PAGE each) cover the total found the upstream reported.
C25_PagesInOrderUntilCovered ==
    [][ /\ PagesInOrderStep
        /\ (SendsPage /\ answer.kind = "page")
              => ~(page * ITEMS_PER_PAGE >= answer.found) ]_vars

\* The order alone, without the stop at the reported total.
PagesRequestedInOrder == [][PagesInOrderStep]_vars

\* C26: once allItems holds at least totalLimit items at the head of a
\* company's iteration, it keeps holding as many and no search request is sent
\* any more, for that company or a later one.
C26_NoSearchAfterLimit ==
    [][ /\ Len(allItems) >= request.totalLimit
           => Len(allItems') >= request.totalLimit
        /\ SendsPage => Len(allItems) < request.totalLimit ]_vars

\* The first company of the main sheet has filled the limit; the second one
\* was never searched and the run has ended in time.
C26_Witness ==
    /\ pc = "done"
    /\ request.sheet = MainSheet
    /\ request.totalLimit = 1
    /\ ci = 2
    /\ stopped = {}
    /\ Len(allItems) = 1

\* The company loop stands at a company whose name cleans to the empty string.
AtEmptyName ==
    /\ pc = "company_loop"
    /\ ci <= Len(companies)
    /\ CleanedName[companies[ci]] = <<>>

\* C27: a company whose name cleans to the empty string is skipped: the step
\* that meets it sends no request and adds no item, and unless the time or the
\* limit ends the whole loop there, the loop goes on with the next company;
\* every search request that is sent is for a company with a non-empty
\* cleaned name.
C27_EmptyNameSkipped ==
    [][ /\ AtEmptyName =>
              /\ inflight' = NoCall
              /\ IsPrefix(allItems', allItems)
              /\ (~TimeExceeded(startTime) /\ Len(allItems) < request.totalLimit)
                    => /\ pc' = "company_loop"
                       /\ ci' = ci + 1
                       /\ allItems' = allItems
        /\ SendsPage => /\ cleanName # <<>>
                        /\ cleanName = CleanedName[companies[ci]] ]_vars

\* A run whose first company was skipped for its empty name has returned
\* items of a later company.
C27_Witness ==
    /\ pc = "done"
    /\ companies # <<>>
    /\ CleanedName[companies[1]] = <<>>
    /\ Len(enrichedItems) >= 1

\* A step in which the detail call of an item ends for good (after its last
\* retry) and the item is pushed.
FinishesItem == pc = "detail_wait" /\ Len(enrichedItems') = Len(enrichedItems) + 1

\* C28: the detail calls are throttled: the step that ends the detail call of
\* an item (its retries included) leaves the clock at least
\* DELAY_BETWEEN_REQUESTS after the end of that call, the clock never goes
\* back, and a detail call is sent at the clock of the state it is sent from;
\* so the next item's call starts at least DELAY_BETWEEN_REQUESTS after the
\* end of the one before, inside a batch and from one batch to the next.
C28_Throttled ==
    [][ /\ FinishesItem => now' >= now + answer'.duration + DELAY_BETWEEN_REQUESTS
        /\ now' >= now
        /\ (inflight = NoCall /\ inflight'.kind = "detail") => now' = now ]_vars

\* The first item of the second batch has its call in flight; the two items
\* before it, the last two of the first batch, were answered at once, so the
\* clock shows the wait after the one and the two waits after the other.
C28_Witness ==
    /\ pc = "detail_wait"
    /\ inflight.kind = "detail"
    /\ batchStart = BATCH_SIZE
    /\ Len(enrichedItems) = BATCH_SIZE
    /\ now = (BATCH_SIZE + 1) * DELAY_BETWEEN_REQUESTS

\* A field that has to be quoted in delimited text, and the way to quote it.
NeedsQuoting(field) ==
    Includes(field, COMMA) \/ Includes(field, DQUOTE) \/ Includes(field, NEWLINE)
Enclosed(field) == <<DQUOTE>> \o DoubleQuotes(field) \o <<DQUOTE>>

\* The fields of a vacancy in the order of the columns: id, name, employer,
\* salary from, salary to, currency, URL.
VacancyFields(item) ==
    << item.id, item.name, item.employer.name,
       IF item.salary = <<>> THEN <<>> ELSE String(NumOrEmpty(item.salary[1].from)),
       IF item.salary = <<>> THEN <<>> ELSE String(NumOrEmpty(item.salary[1].to)),
       IF item.salary = <<>> THEN <<>> ELSE OrEmpty(item.salary[1].currency),
       item.alternate_url >>

\* The fields of the r-th item of the input, column by column.
FieldsOfItem(r) ==
    IF input.kind = "resume"
    THEN [k \in 1..Len(headers) |-> String(ResumeRow(input.items[r])[k])]
    ELSE VacancyFields(input.items[r])

\* Every field of the delimited text that holds a comma, a double quote or a
\* newline stands in the text enclosed in double quotes, its own double
\* quotes doubled.
FieldsQuoted ==
    \A r \in 1..Len(input.items) :
        \A k \in 1..Len(FieldsOfItem(r)) :
            NeedsQuoting(FieldsOfItem(r)[k])
                => /\ Len(output.rows[r + 1]) >= k
                   /\ output.rows[r + 1][k] = Enclosed(FieldsOfItem(r)[k])

\* C29: in the delimited text of the resume convertToCSV and of the vacancy
\* convertToCSV, every field with a comma, a double quote or a newline is
\* enclosed in double quotes with its double quotes doubled, in every column.
C29_FieldsQuoted ==
    (pc = "formatted" /\ output.kind = "csv") => FieldsQuoted

\* The same for the resume convertToCSV alone.
ResumeFieldsQuoted ==
    (pc = "formatted" /\ output.kind = "csv" /\ input.kind = "resume") => FieldsQuoted

\* The same for the two columns of the vacancy convertToCSV that go through
\* escapeCSV, the name and the employer.
VacancyNamesQuoted ==
    (pc = "formatted" /\ output.kind = "csv" /\ input.kind = "vacancy") =>
        \A r \in 1..Len(input.items) :
            \A k \in {2, 3} :
                NeedsQuoting(FieldsOfItem(r)[k])
                    => output.rows[r + 1][k] = Enclosed(FieldsOfItem(r)[k])

\* The cell as the formatter's output shows it: quoted in the delimited text,
\* as it is in the values for the sheet.
Shown(cell) == IF output.kind = "csv" THEN QuoteCell(cell) ELSE cell

\* What the row of an item shows for its optional fields that are absent.
PlaceholdersFor(item, row) ==
    /\ item.title = <<>> => row[1] = Shown(Text(<<>>))
    /\ item.experience = <<>> =>
          /\ row[2] = Shown(Text(<<>>))
          /\ row[3] = Shown(Text(<<>>))
          /\ row[5] = Shown(Text(NA \o <<SPACE, HYPHEN, SPACE>> \o NA))
    /\ item.status = <<>> => row[6] = Shown(Text(<<>>))
    /\ item.salary = <<>> => row[9] = Shown(Text(<<>>))
    /\ item.area = <<>> => row[11] = Shown(Text(<<>>))
    /\ item.total_experience = <<>> => row[12] = Shown(Text(<<>>))

\* What the row shows for the fields that are present stands in the column
\* of the field's header.
InHeaderOrder(item, row) ==
    /\ item.title # <<>> => row[1] = Shown(Text(item.title[1]))
    /\ item.status # <<>> => row[6] = Shown(Text(item.status[1]))
    /\ row[7] = Shown(Text(ResumeUrl \o item.id))
    /\ item.area # <<>> => row[11] = Shown(Text(item.area[1].name))

\* C30: every row of the resume formatters (the delimited text and the values
\* for the sheet) has one cell per header column, twelve of them in the
\* header's order, whatever optional fields the item lacks; an absent field
\* shows as the empty string (an absent date as N/A), never as a missing cell.
C30_TwelveCellsPerRow ==
    (pc = "formatted" /\ input.kind = "resume") =>
        /\ Len(output.rows) = Len(input.items) + 1
        /\ output.rows[1] = [k \in 1..Len(headers) |-> Shown(headers[k])]
        /\ \A r \in 1..Len(input.items) :
              /\ Len(output.rows[r + 1]) = Len(headers)
              /\ Len(output.rows[r + 1]) = 12
              /\ PlaceholdersFor(input.items[r], output.rows[r + 1])
              /\ InHeaderOrder(input.items[r], output.rows[r + 1])

\* The delimited text of an item that has none of its optional fields.
C30_Witness ==
    /\ pc = "formatted"
    /\ input.kind = "resume"
    /\ output.kind = "csv"
    /\ Len(input.items) = 2
    /\ input.items[1] = ResumeCase(PlainText, OptionalFields)

\* C31: every request is answered in the end (with a result, a timed-out
\* notice or an error), also when the upstream keeps returning non-empty
\* pages with a larger and larger found count.
C31_EventuallyAnswered == <>(pc = "done" /\ response # NoResponse)

\* The pagination of the first company went on over pages that never ran
\* out until the time limit stopped it, and the request has been answered.
C31_Witness ==
    /\ pc = "done"
    /\ response # NoResponse
    /\ "page" \in stopped
    /\ page >= 3

\* The handler has answered with the timed-out notice.
TimedOutAnswer == response.kind = "status" /\ ~response.success

\* C32: in full mode the handler answers with the timed-out notice only if a
\* loop of fetchResumes was stopped by the time limit; a run in which no loop
\* was stopped by it and every item of allItems was enriched, and whose write
\* did not fail, has its rows written and answers success.
C32_TimedOutOnlyIfStopped ==
    (pc = "done" /\ request.mode = "full") =>
        /\ TimedOutAnswer => stopped # {}
        /\ (stopped = {} /\ Len(enrichedItems) = Len(allItems) /\ response.kind # "error")
              => /\ response.kind = "status"
                 /\ response.success
                 /\ sheetRows.written

\* C33: after a full-mode search the dashboard shows the message that the
\* resumes were written to the sheet only for a response with success: true,
\* that is only if the server wrote the rows.
C33_WrittenMessageOnlyIfWritten ==
    (pc = "shown" /\ request.mode = "full" /\ dashboard.alert # "none")
        => /\ response.kind = "status"
           /\ response.success
           /\ sheetRows.written

\* C34: a request with mode=preview is never answered with more than 10
\* items, never with a CSV file or a written sheet; for the resume search
\* and for the vacancy search, for every totalLimit.
C34_PreviewAtMostTen ==
    (pc = "done" /\ request.mode = "preview") =>
        /\ response.kind \notin {"csv", "status"}
        /\ ~sheetRows.written
        /\ response.kind = "preview" => Len(response.items) <= PREVIEW_LIMIT

\* The vacancies of the result that were found for a company of the request:
\* those of the employers that the employer search returns for its name.
FoundFor(items, company) ==
    { k \in 1..Len(items) :
        \E j \in 1..Len(EmployerIds(company)) : EmployerIds(company)[j] = items[k].employer.id }

\* The first half of C35 on its own: at most limitPerCompany vacancies for
\* each company of the request.
EachCompanyCapped ==
    (pc = "done" /\ response.kind \in {"preview", "csv"}) =>
        \A k \in 1..Len(companies) :
            Cardinality(FoundFor(response.items, companies[k])) <= request.limitPerCompany

\* The second half of C35 on its own: at most totalLimit vacancies in all.
TotalCapped ==
    (pc = "done" /\ response.kind \in {"preview", "csv"}) =>
        Len(response.items) <= request.totalLimit

\* The second half of C35 for the requests that do not set preview=true.
TotalCappedUnlessPreviewParameter ==
    (pc = "done" /\ response.kind \in {"preview", "csv"} /\ ~request.preview) =>
        Len(response.items) <= request.totalLimit

\* C35: the vacancy search returns, for every company of the request, at
\* most limitPerCompany vacancies found for it, however many employer ids its
\* name has; and at most totalLimit vacancies in all.
C35_PerCompanyCap == EachCompanyCapped /\ TotalCapped

\* A request to the platform for a company has just failed by throwing.
ThrowsNow == answer.kind # "vacancy" /\ answer'.kind = "vacancy" /\ answer'.outcome = "throws"

\* C36: in the vacancy search a failure while one company is processed (the
\* employer lookup or a vacancy page request throws) does not abort the run:
\* what was collected for the earlier companies is kept and the later
\* companies are still processed.
C36_FailureDoesNotAbort ==
    [][ThrowsNow => /\ pc' # "done"
                    /\ allItems' = allItems
                    /\ response' = NoResponse]_vars

\* What C36 promises of the answer: the vacancies collected before a failure
\* are returned.
CollectedAreReturned ==
    (pc = "done" /\ allItems # <<>>) => response.kind \in {"preview", "csv"}

\* A request goes to the token endpoint in this step.
TokenRequested == attempts' = attempts + 1

\* The token endpoint answers with a failure in this step.
TokenFailsNow == pc = "token_wait" /\ answer'.kind = "token" /\ answer'.outcome # "ok"

\* C37: the OAuth callback makes at most 2 requests to the token endpoint;
\* a second request follows only an HTTP 403 and only RETRY_DELAY or more
\* after it; any other failure is not retried and ends in a redirect to the
\* main page with an error parameter and no cookie; a callback without a code
\* makes no token request.
C37_AtMostOneRetry ==
    /\ [](/\ attempts <= TOKEN_MAX_RETRIES + 1
          /\ request.code = <<>> => attempts = 0
          /\ (pc = "done" /\ response.error # "none")
                => /\ response.kind = "redirect" /\ response.to = "/"
                   /\ response.cookies = {})
    /\ [][/\ (TokenRequested /\ attempts >= 1)
                => /\ answer.kind = "token" /\ answer.outcome = "http"
                   /\ answer.status = 403
                   /\ now >= answer.at + RETRY_DELAY
          /\ (TokenFailsNow /\ answer'.status # 403)
                => /\ pc' = "done"
                   /\ response'.error # "none"
                   /\ response'.cookies = {}
          /\ pc = "done" => attempts' = attempts]_vars

C37_Witness ==
    /\ pc = "done"
    /\ attempts = TOKEN_MAX_RETRIES + 1
    /\ waited = RETRY_DELAY
    /\ answer.outcome = "http"
    /\ response.error # "none"

====
